---- MODULE Spec2Model ----
(***************************************************************************)
(* The triage job pipeline of Nexify: the trigger endpoint                 *)
(* (core/api/views.py, TicketTriggerTriageView.post), the JobRun,          *)
(* Suggestion and TicketEvent tables with their storage constraints        *)
(* (core/models.py) and the background task run_ticket_triage              *)
(* (core/tasks.py).                                                        *)
(*                                                                         *)
(* Database rows are records.  The JobRun table is kept partitioned by     *)
(* (ticket, idempotency_key): the rows of a pair in insertion order, a     *)
(* row's id being the pair and its position.  Suggestion and TicketEvent   *)
(* are sets of rows whose ids are likewise made of the job (and event      *)
(* type) and a position, so that two rows never share an id.               *)
(* A transaction.atomic() block that holds a row lock is a pair of         *)
(* actions: the one that takes the lock and the one that commits or rolls  *)
(* back; its uncommitted writes live in the process's local state and are  *)
(* invisible to the other processes until the commit.  Timestamps are      *)
(* logical: a write of timezone.now() stores a value greater than the one  *)
(* the field held, and 0 stands for NULL.  Confidences are in percent.     *)
(*                                                                         *)
(* Suggestion.objects.create is given the keyword arguments                *)
(* classification, confidence and citations (tasks.py:112-124), which      *)
(* SuggestionSerializer also lists; the rows of the model carry them,      *)
(* although core/models.py declares no such columns.                       *)
(*                                                                         *)
(* The knowledge base (core/kb.py, DocumentViewSet.create in               *)
(* core/api/views.py, embed_document_chunks in core/tasks.py): a text is   *)
(* the sequence of its characters; an embedding is a point of a line and   *)
(* the distance of two embeddings the length between them, the embedding   *)
(* model being a fixed function of the text.  chunk_text is followed one   *)
(* loop iteration at a time; where a caller only needs its result the      *)
(* same iteration is run to the end.  Where the length of a vector is at   *)
(* stake (embed_texts, _pad_to_db_dim) a vector is the sequence of its     *)
(* components.                                                             *)
(*                                                                         *)
(* The other requests on tickets and suggestions (core/api/views.py:       *)
(* TicketDetailView.patch with the signal handlers of core/signals.py,     *)
(* SuggestionApproveView and SuggestionRejectView) run outside any         *)
(* transaction: a PATCH is followed query by query, a review request from  *)
(* the request to its response.                                            *)
(***************************************************************************)
EXTENDS Naturals, Sequences, FiniteSets

(* ----------------------------- bounds ---------------------------------- *)

\* number of trigger requests issued in a behaviour
NumCalls == 3

Calls == 1..NumCalls

\* number of requests made in the specifications that take in the rejected
\* requests, schedule fairly, include the auto-resolution step or run the
\* LLM-backed classifier
NumGateCalls == 2
Workers == {"w1", "w2"}

(* ------------------------ fixtures (seed data) ------------------------- *)

Tickets == {"t1", "t2"}
NoUser == "none"

\* Ticket.organization of the two tickets
TicketOrg(t) == IF t = "t1" THEN "o1" ELSE "o2"

\* the words of subject + body the classifier looks for, per ticket:
\* t1 = "Login broken" / "401 error", t2 = "Triage idempotency test" /
\* "Something is broken"
TicketText(t) == IF t = "t1" THEN {"login", "error"} ELSE {"broken"}

\* the body of a ticket as the embedder reads it, character by character
TicketBody(t) == IF t = "t1" THEN <<"a">> ELSE <<"a", "a">>

\* Membership rows: the role of a user in an organization, "" for none
Users == {"alice", "bob", "vera", "mallory"}
Organizations == {"o1", "o2"}
Role(u, o) ==
    CASE u = "alice" -> "admin"
      [] u = "bob" /\ o = "o1" -> "agent"
      [] u = "vera" /\ o = "o1" -> "viewer"
      [] OTHER -> ""

\* an Idempotency-Key header: absent, or its text as a sequence of pieces,
\* each a run of blanks (" ") or a run of other characters
NoHeader == [present |-> FALSE, text |-> << >>]
Header(text) == [present |-> TRUE, text |-> text]

\* "x" * 81
LongKey ==
    "xxxxxxxxxxxxxxxxxxxxxxxxxxxxxxxxxxxxxxxxxxxxxxxxxxxxxxxxxxxxxxxxxxxxxxxxxxxxxxxxx"

\* the requests made: ticket asked for, Idempotency-Key header, user
RequestInputs ==
    { <<"t1", Header(<<"k1">>), "alice">>,
      <<"t1", Header(<<" ", "k1", " ">>), "bob">>,
      <<"t1", Header(<<"k2">>), "alice">>,
      <<"t2", Header(<<"k1">>), "alice">>,
      <<"t1", NoHeader, "alice">>,
      <<"t1", Header(<< >>), "bob">>,
      <<"t1", Header(<<" ", " ">>), "alice">>,
      <<"t2", Header(<<" ", LongKey>>), "alice">>,
      <<"t2", Header(<<"k1">>), "bob">>,
      <<"t1", Header(<<"k1">>), "mallory">>,
      <<"t2", NoHeader, "mallory">>,
      <<"t1", Header(<<"k1">>), "vera">> }

\* user_org_ids that forgets the filter on the user
user_org_ids_Unfiltered(u) == Organizations

\* user_org_ids(user): the organizations the user is a member of
user_org_ids(u) == { o \in Organizations : Role(u, o) # "" }

\* TicketRolePermission.has_object_permission for a POST
has_object_permission(u, t) == Role(u, TicketOrg(t)) \in {"admin", "agent"}

\* the characters str.strip() removes
Whitespace == {" ", "\t", "\n", "\r"}

\* str.strip() on the pieces of a text
RECURSIVE lstrip(_)
lstrip(s) ==
    IF s # << >> /\ Head(s) \in Whitespace THEN lstrip(Tail(s)) ELSE s
RECURSIVE rstrip(_)
rstrip(s) ==
    IF s # << >> /\ s[Len(s)] \in Whitespace
    THEN rstrip(SubSeq(s, 1, Len(s) - 1))
    ELSE s
strip(s) == rstrip(lstrip(s))

\* the string the pieces spell
RECURSIVE Join(_)
Join(s) == IF s = << >> THEN "" ELSE Head(s) \o Join(Tail(s))

\* an idem_key taken from the header as sent
idem_key_NoStrip(h) == Join(IF h.present THEN h.text ELSE << >>)

\* idem_key = (request.headers.get("Idempotency-Key") or "").strip()
idem_key(h) == Join(strip(IF h.present THEN h.text ELSE << >>))

\* max length of an Idempotency-Key
MaxKeyLen == 80

\* what post() does before it touches the job table: 404 from
\* get_object_or_404, 403 from check_object_permissions, 400 from the
\* validation of the key, 0 when the request goes on
Admission(t, h, u) ==
    IF TicketOrg(t) \notin user_org_ids(u) THEN 404
    ELSE IF ~has_object_permission(u, t) THEN 403
    ELSE IF idem_key(h) = "" THEN 400
    ELSE IF Len(idem_key(h)) > MaxKeyLen THEN 400
    ELSE 0

\* the (ticket, key, user) combinations of the requests that go on
Requests ==
    { <<i[1], idem_key(i[2]), i[3]>> :
         i \in { x \in RequestInputs : Admission(x[1], x[2], x[3]) = 0 } }

Pairs == { <<r[1], r[2]>> : r \in Requests }

\* the auto_resolve flag of the classifier result the auto-resolution tests
\* stub for a ticket (true in both tests)
ClassifierAutoResolve(t) == TRUE

\* the confidence at or above which a flagged suggestion is to be applied
AutoResolveThreshold == 75

\* exceptions a statement of the atomic block can raise from outside the
\* program's control: a timeout (transient) and a permanent error
EnvExceptions == {"TimeoutError", "ValueError"}

(* ------------------------------ state ---------------------------------- *)

VARIABLES
    tickets,      \* Ticket table: ticket -> [status, priority, assigned_team]
    jobs,         \* JobRun table, committed: (ticket, key) -> its rows
    suggestions,  \* Suggestion table, committed rows
    events,       \* TicketEvent table, committed rows
    queue,        \* broker: per job, the number of run_ticket_triage messages
    call,         \* per trigger request: position and local variables
    worker,       \* per worker process: position and local variables
    documents,    \* Document table: the rows in insertion order
    chunks,       \* DocumentChunk table, a set of rows
    embed_tasks,  \* broker: per document, its embed_document_chunks message
    chunker,      \* the frame of a chunk_text call
    reply,        \* what the last knowledge-base request returned
    embedder,     \* the frame of an embed_texts call
    patch,        \* per PATCH of a ticket: position and local variables
    review        \* the last approve or reject request and its response

\* the knowledge-base part of the state
kbvars == <<documents, chunks, embed_tasks, chunker, reply, embedder>>

\* the requests on tickets and suggestions outside the triage pipeline
apivars == <<patch, review>>

vars == <<tickets, jobs, suggestions, events, queue, call, worker, kbvars,
          apivars>>

\* the ids of the JobRun rows: the pair and the position among its rows
JobIds == UNION { { <<p, n>> : n \in 1..Len(jobs[p]) } : p \in Pairs }

NoJob == << <<"t1", "k1">>, 0 >>

\* the row with id j
Row(j) == jobs[j[1]][j[2]]

(* ----------------------------- classifier ------------------------------ *)

AuthWords == {"password", "login", "2fa", "mfa", "auth"}
BillingWords == {"billing", "invoice", "payment", "card", "charge"}
PerfWords == {"latency", "slow", "timeout", "500", "503", "error"}

\* _simple_classification_and_resolution: the first keyword family that
\* occurs in the text decides
_simple_classification_and_resolution(t) ==
    LET text == TicketText(t) IN
    IF text \cap AuthWords # {} THEN
        [classification |-> "login_issue", suggested_team |-> "Auth Support",
         suggested_priority |-> "high", confidence |-> 88]
    ELSE IF text \cap BillingWords # {} THEN
        [classification |-> "billing", suggested_team |-> "Billing Support",
         suggested_priority |-> "high", confidence |-> 85]
    ELSE IF text \cap PerfWords # {} THEN
        [classification |-> "performance_incident",
         suggested_team |-> "Platform SRE",
         suggested_priority |-> "urgent", confidence |-> 90]
    ELSE
        [classification |-> "general_support",
         suggested_team |-> "General Support",
         suggested_priority |-> "medium", confidence |-> 72]

(* ------------------------------ tables --------------------------------- *)

\* a new JobRun row: the model's defaults and the arguments of get_or_create
NewJobRun(t, k, u) ==
    [organization |-> TicketOrg(t), ticket |-> t, idempotency_key |-> k,
     status |-> "queued", started_at |-> 0, finished_at |-> 0,
     error |-> "", triggered_by |-> u]

\* a lookup by the key string alone
JobRunLookup_ByKeyOnly(t, k) ==
    { j \in JobIds : Row(j).idempotency_key = k }

\* JobRun.objects.filter(organization=ticket.organization, ticket=ticket,
\*                       idempotency_key=idem_key)
JobRunLookup(t, k) ==
    { j \in JobIds : /\ Row(j).organization = TicketOrg(t)
                     /\ Row(j).ticket = t
                     /\ Row(j).idempotency_key = k }

\* the table without uniq_jobrun_ticket_idempotency_key
JobRunUniqueViolation_Absent(t, k) == FALSE

\* uniq_jobrun_ticket_idempotency_key: an insert of (ticket, key) violates
\* the constraint when a row with that pair exists
JobRunUniqueViolation(t, k) ==
    \E j \in JobIds : Row(j).ticket = t /\ Row(j).idempotency_key = k

\* job.suggestion (the reverse side of the one-to-one field)
SuggestionsOf(j) == { s \in suggestions : s.job_run = j }

HasSuggestion(j) == SuggestionsOf(j) # {}

EventsOf(t, type, j) ==
    { e \in events : e.ticket = t /\ e.event_type = type /\ e.job_run = j }

\* a table whose rows are never locked
Locked_Never(j) == FALSE

\* the row lock of select_for_update: held by the worker whose atomic block
\* has loaded the job and not yet committed or rolled back
Locked(j) ==
    \E w \in Workers : /\ worker[w].pc \notin {"idle", "except"}
                       /\ worker[w].job = j

\* what the view reads of a job row
Snapshot(j) ==
    [id |-> j, status |-> Row(j).status, started_at |-> Row(j).started_at,
     finished_at |-> Row(j).finished_at, error |-> Row(j).error]

NoSnapshot ==
    [id |-> NoJob, status |-> "", started_at |-> 0, finished_at |-> 0,
     error |-> ""]

(* ------------------- knowledge base: texts and tables ------------------ *)
\* A text is the sequence of its characters.

\* the longest text given to chunk_text
MaxTextLen == 4

\* the largest chunk_size given to chunk_text; overlaps go one beyond it
MaxChunkSize == 3

\* the largest k asked of a search
MaxK == 2

\* the number of documents ingested in a behaviour
MaxIngests == 1

Chars == {"a", " ", "\n", "\r"}

Texts == UNION { [1..m -> Chars] : m \in 0..MaxTextLen }

\* text.replace("\r\n", "\n")
RECURSIVE replace_crlf(_)
replace_crlf(s) ==
    IF s = << >> THEN << >>
    ELSE IF Len(s) >= 2 /\ s[1] = "\r" /\ s[2] = "\n"
         THEN <<"\n">> \o replace_crlf(SubSeq(s, 3, Len(s)))
         ELSE <<s[1]>> \o replace_crlf(Tail(s))

\* text.replace("\r", "\n")
replace_cr(s) == [n \in 1..Len(s) |-> IF s[n] = "\r" THEN "\n" ELSE s[n]]

normalize_text(text) == strip(replace_cr(replace_crlf(text)))

\* NULL, where an embedding is expected; an embedding is <<v>>
Null == << >>

\* the vectors of the embedding space: points of a line
Vectors == 0..2

\* _embedder.encode on one text: the same text gives the same vector
embed_text(text) ==
    LET count == Cardinality({ n \in 1..Len(text) : text[n] = "a" })
    IN IF count > 2 THEN 2 ELSE count

\* CosineDistance("embedding", query_vec)
CosineDistance(v, q) == IF v >= q THEN v - q ELSE q - v

\* the Document rows the tables start with: one per seeded chunk
SeedDocument(n, o) ==
    [id |-> n, organization |-> o, title |-> <<"T">>, text |-> <<"a">>]

\* a DocumentChunk row loaded with its embedding (or with none)
SeedChunk(n, o, e) ==
    [id |-> n, organization |-> o, document |-> n, chunk_index |-> 0,
     text |-> <<"a">>, char_start |-> 0, char_end |-> 1, embedding |-> e]

\* the tables the triage pipeline runs against
SeedDocuments ==
    <<SeedDocument(1, "o1"), SeedDocument(2, "o1"), SeedDocument(3, "o2")>>

SeedChunks ==
    {SeedChunk(1, "o1", <<1>>), SeedChunk(2, "o1", Null),
     SeedChunk(3, "o2", <<0>>)}

\* no call of chunk_text is under way; overlap_arg is the overlap the
\* caller passed, before the clamp
IdleChunker ==
    [pc |-> "idle", text |-> << >>, chunk_size |-> 1, overlap_arg |-> 0,
     step |-> 1, i |-> 0, out |-> << >>]

NoReply ==
    [op |-> "", user |-> NoUser, organization |-> "", title |-> << >>,
     text |-> << >>, k |-> 0, status |-> "", results |-> << >>]

\* no call of embed_texts is under way; dim is the dimension of the
\* vectors the loaded SentenceTransformer produces
IdleEmbedder == [pc |-> "idle", texts |-> << >>, dim |-> 0, out |-> << >>]

InitKnowledgeBase ==
    /\ documents = SeedDocuments
    /\ chunks = SeedChunks
    /\ embed_tasks = [d \in {} |-> ""]
    /\ chunker = IdleChunker
    /\ reply = NoReply
    /\ embedder = IdleEmbedder

(* ----------------------- search_kb_chunks_for_query -------------------- *)

\* a search that looks through the chunks of every organization
Candidates_AnyTenant(org) == { c \in chunks : c.embedding # Null }

\* .filter(organization_id=org_id, embedding__isnull=False)
Candidates(org) ==
    { c \in chunks : c.organization = org /\ c.embedding # Null }

\* .annotate(distance=CosineDistance("embedding", query_vec))
Distance(c, query_vec) == CosineDistance(c.embedding[1], query_vec)

\* .order_by("distance"): the rows in an order of non-decreasing distance;
\* rows at the same distance come in whatever order the database produces
OrderByDistance(rows, query_vec) ==
    { s \in [1..Cardinality(rows) -> rows] :
        /\ \A a, b \in 1..Cardinality(rows) : a # b => s[a] # s[b]
        /\ \A a \in 1..Cardinality(rows) : \A b \in 1..Cardinality(rows) :
             a < b => Distance(s[a], query_vec) <= Distance(s[b], query_vec) }

\* qs[:k]
Limit(s, k) == SubSeq(s, 1, IF k < Len(s) THEN k ELSE Len(s))

\* one entry of the result list
ResultRow(c, query_vec) ==
    [document_id |-> c.document,
     document_title |-> documents[c.document].title,
     chunk_id |-> c.id, chunk_index |-> c.chunk_index, text |-> c.text,
     score |-> Distance(c, query_vec)]

\* the result lists a call may return
search_kb_chunks_for_query(org_id, query, k) ==
    IF normalize_text(query) = << >>
    THEN { << >> }
    ELSE LET query_vec == embed_text(normalize_text(query)) IN
         { [n \in 1..Len(Limit(s, k)) |-> ResultRow(s[n], query_vec)] :
             s \in OrderByDistance(Candidates(org_id), query_vec) }

(* ------------------------------- Init ---------------------------------- *)

IdleCall ==
    [pc |-> "idle", ticket |-> "t1", key |-> "k1", user |-> NoUser,
     job |-> NoSnapshot, created |-> FALSE, lost |-> FALSE, refused |-> 0]

\* a request that has been answered keeps nothing
DoneCall == [IdleCall EXCEPT !.pc = "done"]

NoRow == NewJobRun("t1", "k1", NoUser)

\* None, where a Suggestion id is expected
NoSuggestion == <<NoJob, 0>>

IdleWorker ==
    [pc |-> "idle", job |-> NoJob, exc |-> "", result |-> NoSuggestion,
     row |-> NoRow]

\* the clients that send PATCH requests for a ticket
Patches == {"p1", "p2"}

\* the fields of a ticket a PATCH may set (TicketUpdateSerializer.Meta)
Fields == {"status", "priority", "assigned_team"}

\* a client between two requests: data is request.data as validated,
\* instance the Ticket object the view holds, old what pre_save has read,
\* n the number of requests the client has made
IdlePatch ==
    [pc |-> "idle", data |-> [f \in {} |-> ""],
     instance |-> [status |-> "open", priority |-> "medium",
                   assigned_team |-> ""],
     old |-> [status |-> "open", priority |-> "medium",
              assigned_team |-> ""],
     n |-> 0]

\* no approve or reject request has been made
NoReview ==
    [op |-> "", user |-> NoUser, organization |-> "", ticket |-> "",
     sid |-> NoSuggestion, status |-> ""]

InitApi ==
    /\ patch = [p \in Patches |-> IdlePatch]
    /\ review = NoReview

Init ==
    /\ tickets = [t \in Tickets |->
                    [status |-> "open", priority |-> "medium",
                     assigned_team |-> ""]]
    /\ jobs = [p \in Pairs |-> << >>]
    /\ suggestions = {}
    /\ events = {}
    /\ queue = [p \in Pairs |-> << >>]
    /\ call = [c \in Calls |-> IdleCall]
    /\ worker = [w \in Workers |-> IdleWorker]
    /\ InitKnowledgeBase
    /\ InitApi

(* ------------------- TicketTriggerTriageView.post ---------------------- *)

\* the row a get() of the view returns for (ticket, key)
JobRunGet(t, k) == CHOOSE j \in JobRunLookup(t, k) :
                       \A i \in JobRunLookup(t, k) : j[2] <= i[2]

\* a view that dispatches only the jobs it created
should_enqueue_CreatedOnly(created, job) == created

\* a view that dispatches only the jobs it found waiting
should_enqueue_FoundOnly(created, job) ==
    ~created /\ job.status = "queued" /\ job.started_at = 0

\* should_enqueue of the view, on the flag and the row it has read
should_enqueue(created, job) ==
    created \/ (job.status = "queued" /\ job.started_at = 0)

\* a view that hands an existing job over to the user who asks for it
\* (update_or_create in the place of get_or_create)
TriggerGetFor_TakesOver(c, t, k, u) ==
    /\ call[c].pc = "idle"
    /\ IF c = 1 THEN TRUE ELSE call[c - 1].pc # "idle"
    /\ IF JobRunLookup(t, k) # {}
       THEN LET j == JobRunGet(t, k) IN
            /\ ~Locked(j)
            /\ jobs' = [jobs EXCEPT ![j[1]][j[2]].triggered_by = u]
            /\ call' = [call EXCEPT ![c] =
                   [@ EXCEPT !.pc = "respond", !.ticket = t, !.key = k,
                             !.created = FALSE, !.job = Snapshot(j)]]
       ELSE /\ call' = [call EXCEPT ![c] =
                   [@ EXCEPT !.pc = "insert", !.ticket = t, !.key = k,
                             !.user = u]]
            /\ UNCHANGED jobs
    /\ UNCHANGED <<tickets, suggestions, events, queue, worker,
                   kbvars, apivars>>

\* A request arrives (requests are numbered in the order they arrive):
\* ticket, Idempotency-Key and user are its inputs.  get_or_create, first
\* half: select_for_update().get(...).  An existing row is read once its
\* lock is free (the block's transaction ends right after); DoesNotExist
\* leads to the insert.
TriggerGetFor(c, t, k, u) ==
    /\ call[c].pc = "idle"
    /\ IF c = 1 THEN TRUE ELSE call[c - 1].pc # "idle"
    /\ IF JobRunLookup(t, k) # {}
       THEN /\ ~Locked(JobRunGet(t, k))
            /\ call' = [call EXCEPT ![c] =
                   [@ EXCEPT !.pc = "respond", !.ticket = t, !.key = k,
                             !.created = FALSE,
                             !.job = Snapshot(JobRunGet(t, k))]]
       ELSE call' = [call EXCEPT ![c] =
                   [@ EXCEPT !.pc = "insert", !.ticket = t, !.key = k,
                             !.user = u]]
    /\ UNCHANGED <<tickets, jobs, suggestions, events, queue, worker,
                   kbvars, apivars>>

\* post(): a request that fails the checks made before the job table is
\* touched is answered with its error; the others go on to get_or_create
TriggerPost(c, t, h, u) ==
    IF Admission(t, h, u) = 0
    THEN TriggerGetFor(c, t, idem_key(h), u)
    ELSE /\ call[c].pc = "idle"
         /\ IF c = 1 THEN TRUE ELSE call[c - 1].pc # "idle"
         /\ call' = [call EXCEPT ![c] =
                [@ EXCEPT !.pc = "rejected", !.ticket = t,
                          !.refused = Admission(t, h, u)]]
         /\ UNCHANGED <<tickets, jobs, suggestions, events, queue, worker,
                        kbvars, apivars>>

\* a request arrives, whatever its ticket, header and user
TriggerArrive(c) ==
    \E i \in RequestInputs : TriggerPost(c, i[1], i[2], i[3])

\* a request arrives that passes the checks
TriggerGet(c) == \E r \in Requests : TriggerGetFor(c, r[1], r[2], r[3])

\* the error response (Http404, PermissionDenied, ValidationError) is sent
TriggerRefuse(c) ==
    /\ call[c].pc = "rejected"
    /\ call' = [call EXCEPT ![c] = DoneCall]
    /\ UNCHANGED <<tickets, jobs, suggestions, events, queue, worker,
                   kbvars, apivars>>

\* get_or_create, second half: create(...) in a savepoint.  The insert
\* either adds the row (created = True) or violates the uniqueness
\* constraint, and the IntegrityError is caught inside get_or_create.
TriggerInsert(c) ==
    /\ call[c].pc = "insert"
    /\ LET t == call[c].ticket
           k == call[c].key
           p == <<t, k>>
       IN IF JobRunUniqueViolation(t, k)
          THEN /\ call' = [call EXCEPT ![c] =
                      [@ EXCEPT !.pc = "refetch", !.lost = TRUE,
                                !.user = NoUser]]
               /\ UNCHANGED <<jobs, queue>>
          ELSE /\ jobs' = [jobs EXCEPT ![p] =
                              Append(@, NewJobRun(t, k, call[c].user))]
               /\ queue' = [queue EXCEPT ![p] = Append(@, 0)]
               /\ call' = [call EXCEPT ![c] =
                      [@ EXCEPT !.pc = "respond", !.created = TRUE,
                                !.user = NoUser,
                                !.job = [NoSnapshot EXCEPT
                                            !.id = <<p, Len(jobs[p]) + 1>>,
                                            !.status = "queued"]]]
    /\ UNCHANGED <<tickets, suggestions, events, worker, kbvars, apivars>>

\* a recovery that reports the winner's row as created by the loser
RefetchWinner_AsCreated(t, k) ==
    [job |-> Snapshot(CHOOSE j \in JobRunLookup(t, k) : TRUE),
     created |-> TRUE]

\* the row and the flag a caller that lost the race ends up with
RefetchWinner(t, k) == [job |-> Snapshot(JobRunGet(t, k)), created |-> FALSE]

\* get_or_create, after the IntegrityError: get(...) again.  It returns the
\* winner's row; in a transaction whose snapshot predates the winner's
\* commit it finds nothing and get_or_create re-raises the IntegrityError.
TriggerRefetch(c) ==
    /\ call[c].pc = "refetch"
    /\ LET t == call[c].ticket
           k == call[c].key
       IN \/ /\ ~Locked(JobRunGet(t, k))
             /\ call' = [call EXCEPT ![c] =
                    [@ EXCEPT !.pc = "respond",
                              !.created = RefetchWinner(t, k).created,
                              !.job = RefetchWinner(t, k).job]]
          \/ call' = [call EXCEPT ![c] = [@ EXCEPT !.pc = "except"]]
    /\ UNCHANGED <<tickets, jobs, suggestions, events, queue, worker,
                   kbvars, apivars>>

\* except IntegrityError: a new atomic block reads the winner's row
TriggerExcept(c) ==
    /\ call[c].pc = "except"
    /\ LET t == call[c].ticket
           k == call[c].key
       IN /\ ~Locked(JobRunGet(t, k))
          /\ call' = [call EXCEPT ![c] =
                 [@ EXCEPT !.pc = "respond",
                           !.created = RefetchWinner(t, k).created,
                           !.job = RefetchWinner(t, k).job]]
    /\ UNCHANGED <<tickets, jobs, suggestions, events, queue, worker,
                   kbvars, apivars>>

\* a response that answers 202 whatever the flag
Response_AlwaysAccepted(c) ==
    [job_run_id |-> call[c].job.id, status |-> call[c].job.status,
     created |-> call[c].created, started_at |-> call[c].job.started_at,
     finished_at |-> call[c].job.finished_at, error |-> call[c].job.error,
     http |-> 202]

\* the payload and the status code of the response
Response(c) ==
    [job_run_id |-> call[c].job.id, status |-> call[c].job.status,
     created |-> call[c].created, started_at |-> call[c].job.started_at,
     finished_at |-> call[c].job.finished_at, error |-> call[c].job.error,
     http |-> IF call[c].created THEN 202 ELSE 200]

\* run_ticket_triage.delay(job.id) when should_enqueue, then the response
\* is returned
TriggerRespond(c) ==
    /\ call[c].pc = "respond"
    /\ LET j == call[c].job.id IN
       queue' = IF should_enqueue(call[c].created, call[c].job)
                THEN [queue EXCEPT ![j[1]][j[2]] = @ + 1]
                ELSE queue
    /\ call' = [call EXCEPT ![c] = DoneCall]
    /\ UNCHANGED <<tickets, jobs, suggestions, events, worker, kbvars, apivars>>

(* ----------------------------- JobRun methods -------------------------- *)

\* timezone.now(): later than the value the field holds
Now(prev) == prev + 1

mark_running(job) ==
    [job EXCEPT !.status = "running", !.started_at = Now(job.started_at)]

\* a mark_succeeded() that leaves finished_at as it was
mark_succeeded_NoFinish(job) == [job EXCEPT !.status = "succeeded"]

mark_succeeded(job) ==
    [job EXCEPT !.status = "succeeded", !.finished_at = Now(job.finished_at)]

\* a mark_failed() that saves the status alone
mark_failed_StatusOnly(job, msg) == [job EXCEPT !.status = "failed"]

\* a mark_failed() that leaves finished_at as it was
mark_failed_NoFinish(job, msg) ==
    [job EXCEPT !.status = "failed", !.error = msg]

mark_failed(job, msg) ==
    [job EXCEPT !.status = "failed", !.error = msg,
                !.finished_at = Now(job.finished_at)]

(* --------------------------- run_ticket_triage ------------------------- *)

\* a task without the already-succeeded check
AlreadySucceeded_Never(j) == FALSE

\* "If we've already succeeded, don't do work again."
AlreadySucceeded(j) == Row(j).status = "succeeded" /\ HasSuggestion(j)

\* job.suggestion.id
SuggestionId(j) == (CHOOSE s \in SuggestionsOf(j) : TRUE).id

\* the Suggestion row the task creates
NewSuggestion(j) ==
    LET fields == _simple_classification_and_resolution(Row(j).ticket) IN
    [id |-> <<j, Cardinality(SuggestionsOf(j)) + 1>>,
     organization |-> Row(j).organization, ticket |-> Row(j).ticket,
     job_run |-> j, status |-> "pending",
     suggested_priority |-> fields.suggested_priority,
     suggested_team |-> fields.suggested_team,
     classification |-> fields.classification,
     confidence |-> fields.confidence, citations |-> << >>]

\* an event filed under the first organization of the user who triggered
\* the job, not under the ticket's
NewEvent_ActorOrg(j, type) ==
    [id |-> <<j, type, Cardinality(EventsOf(Row(j).ticket, type, j)) + 1>>,
     organization |-> IF "o1" \in user_org_ids(Row(j).triggered_by)
                      THEN "o1" ELSE "o2",
     ticket |-> Row(j).ticket,
     job_run |-> j, event_type |-> type, actor_type |-> "ai"]

\* a TicketEvent row the task creates
NewEvent(j, type) ==
    [id |-> <<j, type, Cardinality(EventsOf(Row(j).ticket, type, j)) + 1>>,
     organization |-> Row(j).organization, ticket |-> Row(j).ticket,
     job_run |-> j, event_type |-> type, actor_type |-> "ai"]

\* a task that applies every flagged suggestion, whatever its confidence
TicketsAfterTriage_NoThreshold(j) ==
    LET t == Row(j).ticket
        fields == _simple_classification_and_resolution(t)
    IN IF ClassifierAutoResolve(t)
       THEN [tickets EXCEPT ![t] =
                [status |-> "resolved",
                 priority |-> fields.suggested_priority,
                 assigned_team |-> fields.suggested_team]]
       ELSE tickets

\* the Ticket table after the atomic block: the task writes no ticket
TicketsAfterTriage(j) == tickets

\* a failure path on which the ticket update survives the failed attempt
TicketsAfterFailure_Applied(j) == TicketsAfterTriage_NoThreshold(j)

\* the Ticket table after a failed attempt: the rollback has dropped what
\* the atomic block wrote and the except clause saves the job alone
TicketsAfterFailure(j) == tickets

\* tables without the one-to-one and the event uniqueness constraints
InsertsViolateConstraint_Absent(j) == FALSE

\* the inserts of the atomic block hit a storage constraint: the one-to-one
\* Suggestion.job_run, or uniq_ticketevent_ticket_type_jobrun for one of
\* the two events
InsertsViolateConstraint(j) ==
    \/ HasSuggestion(j)
    \/ EventsOf(Row(j).ticket, "ai_triage_ran", j) # {}
    \/ EventsOf(Row(j).ticket, "ai_suggestion_created", j) # {}

\* the pool hands a message to the first worker that is free
FirstFree(w) == w = "w1" \/ worker["w1"].pc # "idle"

\* a worker takes a message and enters the atomic block:
\* select_for_update().get(id=job_run_id) waits for the row lock.  For a
\* job that already succeeded the suggestion id is read, to be returned;
\* otherwise mark_running() is written inside the transaction.
WorkerLoad(w) ==
    /\ worker[w].pc = "idle"
    /\ FirstFree(w)
    /\ \E j \in JobIds :
         /\ queue[j[1]][j[2]] > 0
         /\ ~Locked(j)
         /\ queue' = [queue EXCEPT ![j[1]][j[2]] = @ - 1]
         /\ IF AlreadySucceeded(j)
            THEN worker' = [worker EXCEPT ![w] =
                     [pc |-> "already_done", job |-> j, exc |-> "",
                      result |-> SuggestionId(j), row |-> Row(j)]]
            ELSE worker' = [worker EXCEPT ![w] =
                     [pc |-> "in_tx", job |-> j, exc |-> "",
                      result |-> NoSuggestion,
                      row |-> mark_running(Row(j))]]
    /\ UNCHANGED <<tickets, jobs, suggestions, events, call, kbvars, apivars>>

\* return job.suggestion.id: the atomic block ends, the lock is released
WorkerReturnExisting(w) ==
    /\ worker[w].pc = "already_done"
    /\ worker' = [worker EXCEPT ![w] = IdleWorker]
    /\ UNCHANGED <<tickets, jobs, suggestions, events, queue, call,
                   kbvars, apivars>>

\* the rest of the atomic block runs to its end and commits: the
\* Suggestion, the two events, mark_succeeded(); returns suggestion.id
WorkerCommit(w) ==
    /\ worker[w].pc = "in_tx"
    /\ LET j == worker[w].job IN
         /\ ~InsertsViolateConstraint(j)
         /\ suggestions' = suggestions \cup {NewSuggestion(j)}
         /\ events' = events \cup { NewEvent(j, "ai_triage_ran"),
                                    NewEvent(j, "ai_suggestion_created") }
         /\ jobs' = [jobs EXCEPT ![j[1]][j[2]] = mark_succeeded(worker[w].row)]
         /\ tickets' = TicketsAfterTriage(j)
         /\ worker' = [worker EXCEPT ![w] = IdleWorker]
    /\ UNCHANGED <<queue, call, kbvars, apivars>>

\* a statement of the atomic block raises: an exception from outside, or
\* the IntegrityError of an insert that violates a constraint.  The
\* transaction rolls back (its writes are dropped, the lock is released)
\* and control passes to the except clause.
WorkerRaise(w) ==
    /\ worker[w].pc = "in_tx"
    /\ \E e \in EnvExceptions \cup
                (IF InsertsViolateConstraint(worker[w].job)
                 THEN {"IntegrityError"} ELSE {}) :
         worker' = [worker EXCEPT ![w] =
             [@ EXCEPT !.pc = "except", !.exc = e, !.row = NoRow]]
    /\ UNCHANGED <<tickets, jobs, suggestions, events, queue, call,
                   kbvars, apivars>>

\* except Exception: JobRun.objects.get(id=job_run_id).mark_failed(str(exc)),
\* an UPDATE of status, error and finished_at outside any lock of its own
\* (it waits while another transaction holds the row); returns None
WorkerMarkFailed(w) ==
    /\ worker[w].pc = "except"
    /\ LET j == worker[w].job IN
         /\ ~Locked(j)
         /\ jobs' = [jobs EXCEPT ![j[1]][j[2]] =
                        mark_failed(Row(j), worker[w].exc)]
         /\ tickets' = TicketsAfterFailure(j)
         /\ worker' = [worker EXCEPT ![w] = IdleWorker]
    /\ UNCHANGED <<suggestions, events, queue, call, kbvars, apivars>>

(* -------------------------- specification ------------------------------ *)

Next ==
    \/ \E c \in Calls : TriggerGet(c)
    \/ \E c \in Calls : TriggerInsert(c)
    \/ \E c \in Calls : TriggerRefetch(c)
    \/ \E c \in Calls : TriggerExcept(c)
    \/ \E c \in Calls : TriggerRespond(c)
    \/ \E w \in Workers : WorkerLoad(w)
    \/ \E w \in Workers : WorkerReturnExisting(w)
    \/ \E w \in Workers : WorkerCommit(w)
    \/ \E w \in Workers : WorkerRaise(w)
    \/ \E w \in Workers : WorkerMarkFailed(w)

Spec == Init /\ [][Next]_vars

\* Fair scheduling: a view that holds its row goes on to dispatch and
\* answer, the pool hands a waiting message to a free worker, a run inside
\* its atomic block reaches the end of the block or raises, and the except
\* clause and the early return complete.  Nothing obliges a request to
\* arrive.
Fairness ==
    /\ \A c \in Calls : WF_vars(TriggerRespond(c))
    /\ \A w \in Workers :
          /\ WF_vars(WorkerLoad(w))
          /\ WF_vars(WorkerReturnExisting(w))
          /\ WF_vars(WorkerCommit(w) \/ WorkerRaise(w))
          /\ WF_vars(WorkerMarkFailed(w))


(* ------------- auto-resolution (step 7 of the orchestration) ---------- *)
\* run_ticket_triage has no auto-resolution step; the step is taken from
\* the orchestration's description: after the Suggestion and the two events
\* and before mark_succeeded(), inside the same atomic block, the ticket is
\* updated, the Suggestion is marked accepted and an
\* auto_resolution_applied event is written.

\* the policy: the classifier's flag, and a confidence at or above the
\* threshold
ShouldAutoResolve(j) ==
    /\ ClassifierAutoResolve(Row(j).ticket)
    /\ _simple_classification_and_resolution(Row(j).ticket).confidence
          >= AutoResolveThreshold

\* the ticket as auto-resolution leaves it
ResolvedTicket(j) ==
    LET fields == _simple_classification_and_resolution(Row(j).ticket) IN
    [status |-> "resolved", priority |-> fields.suggested_priority,
     assigned_team |-> fields.suggested_team]

\* a ticket update made outside the job's transaction: saved at once
TicketsInBlock_Autocommit(j) ==
    [tickets EXCEPT ![Row(j).ticket] = ResolvedTicket(j)]

\* the Ticket table the other processes read while the block is between
\* its three writes: the update belongs to the job's transaction
TicketsInBlock(j) == tickets

\* the three writes in their order, as positions of the run
AutoResolveStages == <<"in_tx", "ar_ticket", "ar_suggestion", "ar_event">>

\* the next write of the three is made inside the transaction
AutoResolveAdvance(w) ==
    /\ \E n \in 1..3 :
         /\ worker[w].pc = AutoResolveStages[n]
         /\ worker' = [worker EXCEPT ![w] =
                [@ EXCEPT !.pc = AutoResolveStages[n + 1]]]
    /\ ShouldAutoResolve(worker[w].job)
    /\ ~InsertsViolateConstraint(worker[w].job)
    /\ EventsOf(Row(worker[w].job).ticket, "auto_resolution_applied",
                worker[w].job) = {}
    /\ tickets' = TicketsInBlock(worker[w].job)
    /\ UNCHANGED <<jobs, suggestions, events, queue, call, kbvars, apivars>>

\* a failure after the first of the three writes: the transaction rolls
\* back and control passes to the except clause
AutoResolveRaise(w) ==
    /\ worker[w].pc \in {"ar_ticket", "ar_suggestion", "ar_event"}
    /\ \E e \in EnvExceptions :
         worker' = [worker EXCEPT ![w] =
             [@ EXCEPT !.pc = "except", !.exc = e, !.row = NoRow]]
    /\ UNCHANGED <<tickets, jobs, suggestions, events, queue, call,
                   kbvars, apivars>>

\* the block ends after the three writes: everything it wrote is committed
\* together with mark_succeeded()
WorkerCommitResolved(w) ==
    /\ worker[w].pc = "ar_event"
    /\ LET j == worker[w].job IN
         /\ suggestions' = suggestions \cup
                {[NewSuggestion(j) EXCEPT !.status = "accepted"]}
         /\ events' = events \cup
                { NewEvent(j, "ai_triage_ran"),
                  NewEvent(j, "ai_suggestion_created"),
                  NewEvent(j, "auto_resolution_applied") }
         /\ jobs' = [jobs EXCEPT ![j[1]][j[2]] = mark_succeeded(worker[w].row)]
         /\ tickets' = [tickets EXCEPT ![Row(j).ticket] = ResolvedTicket(j)]
         /\ worker' = [worker EXCEPT ![w] = IdleWorker]
    /\ UNCHANGED <<queue, call, kbvars, apivars>>

\* the block ends without auto-resolution: the policy abstains
WorkerCommitAbstain(w) ==
    /\ worker[w].pc = "in_tx"
    /\ ~ShouldAutoResolve(worker[w].job)
    /\ WorkerCommit(w)

NextAutoResolve ==
    \/ \E c \in Calls : TriggerGet(c)
    \/ \E c \in Calls : TriggerInsert(c)
    \/ \E c \in Calls : TriggerRefetch(c)
    \/ \E c \in Calls : TriggerExcept(c)
    \/ \E c \in Calls : TriggerRespond(c)
    \/ \E w \in Workers : WorkerLoad(w)
    \/ \E w \in Workers : WorkerReturnExisting(w)
    \/ \E w \in Workers : WorkerCommitAbstain(w)
    \/ \E w \in Workers : AutoResolveAdvance(w)
    \/ \E w \in Workers : AutoResolveRaise(w)
    \/ \E w \in Workers : WorkerCommitResolved(w)
    \/ \E w \in Workers : WorkerRaise(w)
    \/ \E w \in Workers : WorkerMarkFailed(w)

\* the state after construction when NumGateCalls requests are made
InitAdmission ==
    /\ tickets = [t \in Tickets |->
                    [status |-> "open", priority |-> "medium",
                     assigned_team |-> ""]]
    /\ jobs = [p \in Pairs |-> << >>]
    /\ suggestions = {}
    /\ events = {}
    /\ queue = [p \in Pairs |-> << >>]
    /\ worker = [w \in Workers |-> IdleWorker]
    /\ call = [c \in Calls |-> IF c <= NumGateCalls THEN IdleCall
                                ELSE DoneCall]
    /\ InitKnowledgeBase
    /\ InitApi

\* the program with every request taken in, those that post() turns away
\* included
NextAdmission ==
    \/ \E c \in Calls : TriggerArrive(c)
    \/ \E c \in Calls : TriggerRefuse(c)
    \/ \E c \in Calls : TriggerInsert(c)
    \/ \E c \in Calls : TriggerRefetch(c)
    \/ \E c \in Calls : TriggerExcept(c)
    \/ \E c \in Calls : TriggerRespond(c)
    \/ \E w \in Workers : WorkerLoad(w)
    \/ \E w \in Workers : WorkerReturnExisting(w)
    \/ \E w \in Workers : WorkerCommit(w)
    \/ \E w \in Workers : WorkerRaise(w)
    \/ \E w \in Workers : WorkerMarkFailed(w)

SpecAdmission == InitAdmission /\ [][NextAdmission]_vars

\* the program under fair scheduling, NumGateCalls requests made
FairSpec == InitAdmission /\ [][Next]_vars /\ Fairness

\* the program with the auto-resolution step, NumGateCalls requests made
SpecAutoResolve == InitAdmission /\ [][NextAutoResolve]_vars

(* ------------------------------ chunk_text ----------------------------- *)

Min(a, b) == IF a <= b THEN a ELSE b

\* a step computed from the overlap as given, neither clamped nor floored
chunk_step_Unclamped(chunk_size, overlap) ==
    IF overlap >= chunk_size THEN 0 ELSE chunk_size - overlap

\* the overlap clamped below chunk_size, then step = max(1, chunk_size -
\* overlap)
chunk_step(chunk_size, overlap) ==
    LET clamped == IF overlap >= chunk_size
                   THEN (IF chunk_size >= 1 THEN chunk_size - 1 ELSE 0)
                   ELSE overlap
    IN IF chunk_size - clamped >= 1 THEN chunk_size - clamped ELSE 1

\* the frame on entry: n == 0 returns [] at once, otherwise i = 0 and the
\* loop is entered
chunk_enter(text, chunk_size, overlap) ==
    IF Len(text) = 0
    THEN [IdleChunker EXCEPT !.pc = "done", !.chunk_size = chunk_size,
                             !.overlap_arg = overlap]
    ELSE [pc |-> "loop", text |-> text, chunk_size |-> chunk_size,
          overlap_arg |-> overlap,
          step |-> chunk_step(chunk_size, overlap), i |-> 0, out |-> << >>]

\* a loop that keeps the trimmed string of a window
chunk_emit_Stripped(out, start, end, chunk_str) ==
    IF strip(chunk_str) # << >>
    THEN Append(out, <<start, end, strip(chunk_str)>>)
    ELSE out

\* if chunk_str.strip(): out.append((start, end, chunk_str))
chunk_emit(out, start, end, chunk_str) ==
    IF strip(chunk_str) # << >>
    THEN Append(out, <<start, end, chunk_str>>)
    ELSE out

\* a loop that stops as soon as a window is cut short by the end of the
\* text, without emitting it
chunk_iterate_DropsTail(f) ==
    LET n == Len(f.text)
        start == f.i
        end == Min(n, f.i + f.chunk_size)
        out == IF f.i + f.chunk_size > n
               THEN f.out
               ELSE chunk_emit(f.out, start, end,
                               SubSeq(f.text, start + 1, end))
    IN IF end >= n \/ f.i + f.step >= n
       THEN [f EXCEPT !.pc = "done", !.out = out]
       ELSE [f EXCEPT !.i = f.i + f.step, !.out = out]

\* one iteration of the while loop: the window [i, min(n, i + chunk_size))
\* is emitted unless blank; the loop ends when the window reaches the end
\* of the text, otherwise i += step and the condition i < n is tested
chunk_iterate(f) ==
    LET n == Len(f.text)
        start == f.i
        end == Min(n, f.i + f.chunk_size)
        out == chunk_emit(f.out, start, end, SubSeq(f.text, start + 1, end))
    IN IF end >= n
       THEN [f EXCEPT !.pc = "done", !.out = out]
       ELSE IF f.i + f.step < n
            THEN [f EXCEPT !.i = f.i + f.step, !.out = out]
            ELSE [f EXCEPT !.pc = "done", !.i = f.i + f.step, !.out = out]

\* the loop run to its end
RECURSIVE chunk_loop(_)
chunk_loop(f) == IF f.pc = "loop" THEN chunk_loop(chunk_iterate(f)) ELSE f

\* the list chunk_text returns
chunk_text(text, chunk_size, overlap) ==
    chunk_loop(chunk_enter(text, chunk_size, overlap)).out

\* chunk_text is called with a text, a chunk_size >= 1 and an overlap >= 0
ChunkTextCall ==
    /\ chunker.pc = "idle"
    /\ \E text \in Texts : \E chunk_size \in 1..MaxChunkSize :
         \E overlap \in 0..(MaxChunkSize + 1) :
           chunker' = chunk_enter(text, chunk_size, overlap)
    /\ UNCHANGED <<tickets, jobs, suggestions, events, queue, call, worker,
                   documents, chunks, embed_tasks, reply,
                   embedder, apivars>>

ChunkTextIterate ==
    /\ chunker.pc = "loop"
    /\ chunker' = chunk_iterate(chunker)
    /\ UNCHANGED <<tickets, jobs, suggestions, events, queue, call, worker,
                   documents, chunks, embed_tasks, reply,
                   embedder, apivars>>

\* core/knowledge/chunking.py, chunk_text: the text is stripped and an
\* empty one returns []; otherwise the first iteration evaluates
\* text[start.end], and the attribute lookup on the int raises
\* AttributeError
KnowledgeChunkText ==
    /\ chunker.pc = "idle"
    /\ \E text \in Texts : \E chunk_size \in 1..MaxChunkSize :
         \E overlap \in 0..(MaxChunkSize + 1) :
           chunker' =
             IF strip(text) = << >>
             THEN [IdleChunker EXCEPT !.pc = "done",
                                      !.chunk_size = chunk_size,
                                      !.overlap_arg = overlap]
             ELSE [pc |-> "raised", text |-> strip(text),
                   chunk_size |-> chunk_size, overlap_arg |-> overlap,
                   step |-> chunk_size -
                       (IF overlap >= chunk_size
                        THEN chunk_size \div 10 ELSE overlap),
                   i |-> 0, out |-> << >>]
    /\ UNCHANGED <<tickets, jobs, suggestions, events, queue, call, worker,
                   documents, chunks, embed_tasks, reply,
                   embedder, apivars>>

\* the call is over: the list is returned, or the exception propagates
ChunkTextReturn ==
    /\ chunker.pc \in {"done", "raised"}
    /\ chunker' = IdleChunker
    /\ UNCHANGED <<tickets, jobs, suggestions, events, queue, call, worker,
                   documents, chunks, embed_tasks, reply,
                   embedder, apivars>>

NextChunker ==
    \/ ChunkTextCall
    \/ ChunkTextIterate
    \/ KnowledgeChunkText
    \/ ChunkTextReturn

\* the chunker alone: no request is made of the rest of the program
InitChunker ==
    /\ tickets = [t \in Tickets |->
                    [status |-> "open", priority |-> "medium",
                     assigned_team |-> ""]]
    /\ jobs = [p \in Pairs |-> << >>]
    /\ suggestions = {}
    /\ events = {}
    /\ queue = [p \in Pairs |-> << >>]
    /\ worker = [w \in Workers |-> IdleWorker]
    /\ call = [c \in Calls |-> DoneCall]
    /\ InitKnowledgeBase
    /\ InitApi

SpecChunker == InitChunker /\ [][NextChunker]_vars

(* ---------------------- knowledge store: requests ---------------------- *)

\* the texts (queries, titles, document texts) the requests carry
RequestTexts ==
    {<< >>, <<" ", "\n">>, <<"a">>, <<" ", "a", "a", "\r">>, <<"\r", "\n">>}

\* chunk_text(text, chunk_size=1200, overlap=200) in DocumentViewSet.create
IngestChunkSize == 1200
IngestOverlap == 200

\* search_kb_chunks_for_query(org_id, query, k) is called and returns
\* (the requests of the knowledge store are made one after the other)
KbSearch ==
    /\ reply.op = ""
    /\ \E org \in Organizations : \E query \in RequestTexts :
         \E k \in 1..MaxK :
           \E results \in search_kb_chunks_for_query(org, query, k) :
             reply' = [NoReply EXCEPT !.op = "search",
                          !.organization = org, !.text = query, !.k = k,
                          !.status = "returned", !.results = results]
    /\ UNCHANGED <<tickets, jobs, suggestions, events, queue, call, worker,
                   documents, chunks, embed_tasks, chunker,
                   embedder, apivars>>

\* DocumentViewSet.create up to the transaction: 0 when the request goes
\* on to create the document, otherwise the status of the error response.
\* Membership (NotFound), role (PermissionDenied), the serializer's
\* non-blank title and text, the view's own checks of the stripped title
\* and the normalized text, and of the list chunk_text returns.
DocumentCreateRefusal(user, org, title, text) ==
    IF Role(user, org) = "" THEN "404"
    ELSE IF Role(user, org) \notin {"admin", "agent"} THEN "403"
    ELSE IF strip(title) = << >> \/ strip(text) = << >> THEN "400"
    ELSE IF normalize_text(text) = << >> THEN "400"
    ELSE IF chunk_text(normalize_text(text), IngestChunkSize,
                       IngestOverlap) = << >> THEN "400"
    ELSE ""

\* the DocumentChunk rows of bulk_create: one per piece, in order, with no
\* embedding
NewChunks(org, doc_id, pieces) ==
    { [id |-> Cardinality(chunks) + n, organization |-> org,
       document |-> doc_id, chunk_index |-> n - 1, text |-> pieces[n][3],
       char_start |-> pieces[n][1], char_end |-> pieces[n][2],
       embedding |-> Null] : n \in 1..Len(pieces) }

\* POST /organizations/<org_id>/documents/: a refused request is answered
\* with its error; otherwise the Document and its chunks are created in
\* one transaction, embed_document_chunks.delay(doc.id) is called and the
\* document is returned with 201
DocumentCreate ==
    /\ reply.op = ""
    /\ \E user \in Users : \E org \in Organizations :
      \E title \in {<<"T">>, <<" ">>} : \E text \in RequestTexts :
        IF DocumentCreateRefusal(user, org, title, text) # ""
        THEN /\ reply' = [NoReply EXCEPT !.op = "ingest", !.user = user,
                             !.organization = org, !.title = title,
                             !.text = text,
                             !.status = DocumentCreateRefusal(user, org,
                                                              title, text)]
             /\ UNCHANGED <<tickets, jobs, suggestions, events, queue, call,
                            worker, documents, chunks, embed_tasks, chunker,
                   embedder, apivars>>
        ELSE LET doc_id == Len(documents) + 1
                 pieces == chunk_text(normalize_text(text), IngestChunkSize,
                                      IngestOverlap)
             IN /\ Len(documents) < Len(SeedDocuments) + MaxIngests
                /\ documents' = Append(documents,
                      [id |-> doc_id, organization |-> org,
                       title |-> strip(title),
                       text |-> normalize_text(text)])
                /\ chunks' = chunks \cup NewChunks(org, doc_id, pieces)
                /\ embed_tasks' =
                      [d \in DOMAIN embed_tasks \cup {doc_id} |->
                         IF d = doc_id THEN "queued" ELSE embed_tasks[d]]
                /\ reply' = [NoReply EXCEPT !.op = "ingest",
                                !.user = user, !.organization = org,
                                !.title = title, !.text = text,
                                !.status = "201", !.results = <<doc_id>>]
                /\ UNCHANGED <<tickets, jobs, suggestions, events, queue,
                               call, worker, chunker, embedder, apivars>>

\* the DocumentChunk table after embed_document_chunks(document_id): the
\* task is a stub that returns None and writes nothing
ChunksAfterEmbedding(document_id) == chunks

\* a worker runs embed_document_chunks for a dispatched document
EmbedDocumentChunks ==
    /\ \E d \in DOMAIN embed_tasks :
         /\ embed_tasks[d] = "queued"
         /\ chunks' = ChunksAfterEmbedding(d)
         /\ embed_tasks' = [embed_tasks EXCEPT ![d] = "returned"]
    /\ UNCHANGED <<tickets, jobs, suggestions, events, queue, call, worker,
                   documents, chunker, reply,
                   embedder, apivars>>

\* the caller has taken what the request returned
KbRespond ==
    /\ reply.op # ""
    /\ reply' = NoReply
    /\ UNCHANGED <<tickets, jobs, suggestions, events, queue, call, worker,
                   documents, chunks, embed_tasks, chunker,
                   embedder, apivars>>

NextKnowledgeStore ==
    \/ KbSearch
    \/ DocumentCreate
    \/ EmbedDocumentChunks
    \/ KbRespond

\* the tables the knowledge store may start with: the seeded chunks with
\* any embedding or none
SeedTables ==
    { { SeedChunk(n, SeedDocuments[n].organization, e[n]) :
          n \in 1..Len(SeedDocuments) } :
        e \in [1..Len(SeedDocuments) ->
                 {Null} \cup { <<v>> : v \in Vectors }] }

\* the knowledge store alone, over any of the seeded tables
InitKnowledgeStore ==
    /\ tickets = [t \in Tickets |->
                    [status |-> "open", priority |-> "medium",
                     assigned_team |-> ""]]
    /\ jobs = [p \in Pairs |-> << >>]
    /\ suggestions = {}
    /\ events = {}
    /\ queue = [p \in Pairs |-> << >>]
    /\ worker = [w \in Workers |-> IdleWorker]
    /\ call = [c \in Calls |-> DoneCall]
    /\ documents = SeedDocuments
    /\ chunks \in SeedTables
    /\ embed_tasks = [d \in {} |-> ""]
    /\ chunker = IdleChunker
    /\ reply = NoReply
    /\ embedder = IdleEmbedder
    /\ InitApi

SpecKnowledgeStore == InitKnowledgeStore /\ [][NextKnowledgeStore]_vars

(* ------------------------------ embed_texts ---------------------------- *)
\* A vector is the sequence of its components.

\* kb.py: the dimension embed_texts pads or truncates to
EMBED_DIM == 1536

\* kb.py: the dimension of the default model (MiniLM)
MODEL_DIM == 384

\* models.py: EMBED_DIM, the dimensions of the column
\* DocumentChunk.embedding = VectorField(dimensions=EMBED_DIM)
models_EMBED_DIM == 384

\* the dimensions of the models EMBEDDING_MODEL_NAME can select: the
\* default's, the padded one, and a larger one
EncoderDims == {MODEL_DIM, EMBED_DIM, EMBED_DIM + MODEL_DIM}

\* _embedder.encode on one text with a model of dimension d: the point of
\* the text first, then components that are not zero
encode(text, d) == [i \in 1..d |-> IF i = 1 THEN embed_text(text) ELSE 1]

_pad_to_db_dim(vec) ==
    IF Len(vec) = EMBED_DIM THEN vec
    ELSE IF Len(vec) > EMBED_DIM THEN SubSeq(vec, 1, EMBED_DIM)
    ELSE vec \o [i \in 1..(EMBED_DIM - Len(vec)) |-> 0]

\* embed_texts(texts) with a model of dimension d loaded
embed_texts(texts, d) ==
    IF texts = << >> THEN << >>
    ELSE [n \in 1..Len(texts) |-> _pad_to_db_dim(encode(texts[n], d))]

\* embed_texts is called: with the query of a search (one text), or with
\* no text
EmbedTextsCall ==
    /\ embedder.pc = "idle"
    /\ \E texts \in {<< >>} \cup { <<t>> : t \in Texts } :
         \E d \in EncoderDims :
            embedder' = [pc |-> "called", texts |-> texts, dim |-> d,
                         out |-> << >>]
    /\ UNCHANGED <<tickets, jobs, suggestions, events, queue, call, worker,
                   documents, chunks, embed_tasks, chunker, reply, apivars>>

\* embed_texts returns the padded vectors as lists
EmbedTextsReturn ==
    /\ embedder.pc = "called"
    /\ embedder' = [embedder EXCEPT
                       !.pc = "returned",
                       !.out = embed_texts(embedder.texts, embedder.dim)]
    /\ UNCHANGED <<tickets, jobs, suggestions, events, queue, call, worker,
                   documents, chunks, embed_tasks, chunker, reply, apivars>>

\* the caller has used the vectors
EmbedTextsDone ==
    /\ embedder.pc = "returned"
    /\ embedder' = IdleEmbedder
    /\ UNCHANGED <<tickets, jobs, suggestions, events, queue, call, worker,
                   documents, chunks, embed_tasks, chunker, reply, apivars>>

NextEmbedder == EmbedTextsCall \/ EmbedTextsReturn \/ EmbedTextsDone

SpecEmbedder == InitChunker /\ [][NextEmbedder]_vars

(* ------------------------ classify_ticket_with_llm --------------------- *)
\* The classifier behind the triage run that the tests of the task patch
\* (core.llm_client.classify_ticket_with_llm).  run_ticket_triage does not
\* call it; the run below is the orchestration's steps 4 and 5 with this
\* classifier: its result's confidence is what the Suggestion is persisted
\* with, the other fields being left as the heuristic gives them.

\* parsed.get("confidence") of the JSON object the model answered with: the
\* key absent (or null), a number, in percent, or a string
LlmConfidences ==
    { [kind |-> "absent", number |-> 0, text |-> ""],
      [kind |-> "number", number |-> 0, text |-> ""],
      [kind |-> "number", number |-> 90, text |-> ""],
      [kind |-> "number", number |-> 100, text |-> ""],
      [kind |-> "number", number |-> 170, text |-> ""],
      [kind |-> "text", number |-> 0, text |-> "0.5"],
      [kind |-> "text", number |-> 0, text |-> "high"] }

\* the "confidence" of the result: None when the key is absent, float(x)
\* otherwise, None again when float raises TypeError or ValueError
llm_confidence(raw) ==
    IF raw.kind = "absent" THEN [none |-> TRUE, value |-> 0]
    ELSE IF raw.kind = "number" THEN [none |-> FALSE, value |-> raw.number]
    ELSE IF raw.text = "0.5" THEN [none |-> FALSE, value |-> 50]
    ELSE [none |-> TRUE, value |-> 0]

\* the atomic block runs to its end with the classifier's result: the
\* Suggestion carries the confidence of the result
WorkerCommitClassified(w) ==
    /\ worker[w].pc = "in_tx"
    /\ LET j == worker[w].job IN
         /\ ~InsertsViolateConstraint(j)
         /\ \E raw \in LlmConfidences :
               suggestions' = suggestions \cup
                   {[NewSuggestion(j) EXCEPT
                        !.confidence = llm_confidence(raw)]}
         /\ events' = events \cup { NewEvent(j, "ai_triage_ran"),
                                    NewEvent(j, "ai_suggestion_created") }
         /\ jobs' = [jobs EXCEPT ![j[1]][j[2]] = mark_succeeded(worker[w].row)]
         /\ tickets' = TicketsAfterTriage(j)
         /\ worker' = [worker EXCEPT ![w] = IdleWorker]
    /\ UNCHANGED <<queue, call, kbvars, apivars>>

NextClassifier ==
    \/ \E c \in Calls : TriggerGet(c)
    \/ \E c \in Calls : TriggerInsert(c)
    \/ \E c \in Calls : TriggerRefetch(c)
    \/ \E c \in Calls : TriggerExcept(c)
    \/ \E c \in Calls : TriggerRespond(c)
    \/ \E w \in Workers : WorkerLoad(w)
    \/ \E w \in Workers : WorkerReturnExisting(w)
    \/ \E w \in Workers : WorkerCommitClassified(w)
    \/ \E w \in Workers : WorkerRaise(w)
    \/ \E w \in Workers : WorkerMarkFailed(w)

\* the run with the LLM-backed classifier, NumGateCalls requests made
SpecClassifier == InitAdmission /\ [][NextClassifier]_vars

(* ------------------------- TicketDetailView.patch ---------------------- *)
\* A PATCH runs in no transaction of its own: each query commits by itself,
\* and the queries of two requests interleave.  The UPDATE of save() and
\* the inserts of ticket_post_save, which reads nothing but the request's
\* own objects, are one step.

\* number of PATCH requests a client makes
MaxPatches == 2

\* request.data as TicketUpdateSerializer validates it (partial=True): the
\* fields the request sets
PatchInputs ==
    { [status |-> "in_progress"], [status |-> "resolved"],
      [priority |-> "high"],
      [status |-> "open", priority |-> "medium"],
      [status |-> "resolved", assigned_team |-> "billing"] }

\* the number the next event of a type gets among the ticket's events that
\* belong to no job
NextEventNo(t, type) ==
    Cardinality({ e \in events : e.ticket = t /\ e.event_type = type }) + 1

\* ticket_post_save for a ticket that existed: one *_changed event for each
\* of the three fields in which old and instance differ
ChangeEvents(t, old, instance) ==
    { [id |-> <<NoJob, f \o "_changed", NextEventNo(t, f \o "_changed")>>,
       organization |-> TicketOrg(t), ticket |-> t, job_run |-> NoJob,
       event_type |-> f \o "_changed", actor_type |-> "system",
       from |-> old[f], to |-> instance[f]] :
         f \in { g \in Fields : old[g] # instance[g] } }

\* patch(): a user who may write ticket t1 sends a request;
\* get_object_or_404 reads the ticket and TicketUpdateSerializer.update
\* sets the request's fields on the object
PatchGet(p) ==
    /\ patch[p].pc = "idle"
    /\ patch[p].n < MaxPatches
    /\ \E u \in Users : /\ TicketOrg("t1") \in user_org_ids(u)
                        /\ has_object_permission(u, "t1")
    /\ \E data \in PatchInputs :
         patch' = [patch EXCEPT ![p] =
            [@ EXCEPT !.pc = "pre_save", !.data = data, !.n = @ + 1,
                      !.instance =
                         [f \in Fields |-> IF f \in DOMAIN data THEN data[f]
                                           ELSE tickets["t1"][f]]]]
    /\ UNCHANGED <<tickets, jobs, suggestions, events, queue, call, worker,
                   kbvars, review>>

\* instance.save(), ticket_pre_save: instance._old = Ticket.objects.get(pk)
PatchPreSave(p) ==
    /\ patch[p].pc = "pre_save"
    /\ patch' = [patch EXCEPT ![p] =
                    [@ EXCEPT !.pc = "save", !.old = tickets["t1"]]]
    /\ UNCHANGED <<tickets, jobs, suggestions, events, queue, call, worker,
                   kbvars, review>>

\* instance.save(), the UPDATE of every column of the row, and
\* ticket_post_save; the response is returned
PatchSave(p) ==
    /\ patch[p].pc = "save"
    /\ tickets' = [tickets EXCEPT !["t1"] = patch[p].instance]
    /\ events' = events \cup ChangeEvents("t1", patch[p].old, patch[p].instance)
    /\ patch' = [patch EXCEPT ![p] = [IdlePatch EXCEPT !.n = patch[p].n]]
    /\ UNCHANGED <<jobs, suggestions, queue, call, worker, kbvars, review>>

NextTicketUpdate ==
    \/ \E p \in Patches : PatchGet(p)
    \/ \E p \in Patches : PatchPreSave(p)
    \/ \E p \in Patches : PatchSave(p)

\* the program with the clients' PATCH requests, no triage requested
SpecTicketUpdate == InitChunker /\ [][NextTicketUpdate]_vars

(* ------------ SuggestionApproveView / SuggestionRejectView ------------- *)
\* Each of the two views is followed as one step, from the request to its
\* response.

\* Suggestion.Status: the members of the enumeration and their values
Suggestion_Status ==
    [PENDING |-> "pending", ACCEPTED |-> "accepted", REJECTED |-> "rejected"]

\* post() of the two views, which differ in the member of Suggestion.Status
\* they name and in the type of the event: the membership and role checks,
\* get_object_or_404 on (id, organization, ticket), the early return when
\* the status is the member's value already, then the save and the event.
\* Looking up a member that Suggestion.Status does not have raises
\* AttributeError, and the request is answered 500 with nothing written.
ReviewPost(op, member, type) ==
    \E user \in Users : \E org \in Organizations : \E t \in Tickets :
    \E sid \in { s.id : s \in suggestions } :
       LET request == [op |-> op, user |-> user, organization |-> org,
                       ticket |-> t, sid |-> sid, status |-> ""]
           found == { s \in suggestions :
                         s.id = sid /\ s.organization = org /\ s.ticket = t }
           s == CHOOSE x \in found : TRUE
       IN IF Role(user, org) = "" THEN
             /\ review' = [request EXCEPT !.status = "404"]
             /\ UNCHANGED <<suggestions, events>>
          ELSE IF Role(user, org) \notin {"admin", "agent"} THEN
             /\ review' = [request EXCEPT !.status = "403"]
             /\ UNCHANGED <<suggestions, events>>
          ELSE IF found = {} THEN
             /\ review' = [request EXCEPT !.status = "404"]
             /\ UNCHANGED <<suggestions, events>>
          ELSE IF member \notin DOMAIN Suggestion_Status THEN
             /\ review' = [request EXCEPT !.status = "500"]
             /\ UNCHANGED <<suggestions, events>>
          ELSE IF s.status = Suggestion_Status[member] THEN
             /\ review' = [request EXCEPT !.status = "200"]
             /\ UNCHANGED <<suggestions, events>>
          ELSE
             /\ review' = [request EXCEPT !.status = "200"]
             /\ suggestions' = (suggestions \ {s}) \cup
                   {[s EXCEPT !.status = Suggestion_Status[member]]}
             /\ events' = events \cup
                   {[id |-> <<NoJob, type, NextEventNo(s.ticket, type)>>,
                     organization |-> s.organization, ticket |-> s.ticket,
                     job_run |-> NoJob, event_type |-> type,
                     actor_type |-> "user", actor_user |-> user,
                     suggestion_id |-> s.id, from_status |-> s.status,
                     to_status |-> Suggestion_Status[member]]}

SuggestionApprovePost ==
    /\ ReviewPost("approve", "APPROVED", "suggestion_approved")
    /\ UNCHANGED <<tickets, jobs, queue, call, worker, kbvars, patch>>

SuggestionRejectPost ==
    /\ ReviewPost("reject", "REJECTED", "suggestion_rejected")
    /\ UNCHANGED <<tickets, jobs, queue, call, worker, kbvars, patch>>

NextReview == SuggestionApprovePost \/ SuggestionRejectPost

\* the state in which the reviewers find the program: alice has triggered
\* the triage of both tickets, and each job has run to its Suggestion
InitReview ==
    LET done == { <<"t1", "k1">>, <<"t2", "k1">> }
        fields(t) == _simple_classification_and_resolution(t)
    IN
    /\ tickets = [t \in Tickets |->
                    [status |-> "open", priority |-> "medium",
                     assigned_team |-> ""]]
    /\ jobs = [p \in Pairs |->
                 IF p \in done
                 THEN <<mark_succeeded(
                          mark_running(NewJobRun(p[1], p[2], "alice")))>>
                 ELSE << >>]
    /\ suggestions =
          { [id |-> << <<p, 1>>, 1 >>,
             organization |-> TicketOrg(p[1]), ticket |-> p[1],
             job_run |-> <<p, 1>>, status |-> "pending",
             suggested_priority |-> fields(p[1]).suggested_priority,
             suggested_team |-> fields(p[1]).suggested_team,
             classification |-> fields(p[1]).classification,
             confidence |-> fields(p[1]).confidence,
             citations |-> << >>] : p \in done }
    /\ events =
          { [id |-> << <<p, 1>>, type, 1 >>,
             organization |-> TicketOrg(p[1]), ticket |-> p[1],
             job_run |-> <<p, 1>>, event_type |-> type,
             actor_type |-> "ai"] :
               p \in done, type \in {"ai_triage_ran", "ai_suggestion_created"} }
    /\ queue = [p \in Pairs |-> IF p \in done THEN <<0>> ELSE << >>]
    /\ worker = [w \in Workers |-> IdleWorker]
    /\ call = [c \in Calls |-> DoneCall]
    /\ InitKnowledgeBase
    /\ InitApi

SpecReview == InitReview /\ [][NextReview]_vars

(* ------------------------------ claims --------------------------------- *)

\* the queue entry of job j after the step
QueueAfter(j) == queue'[j[1]][j[2]]

\* the row with id j after the step
RowAfter(j) == jobs'[j[1]][j[2]]

\* C1: for any number of concurrent trigger calls with the same
\* (ticket, idempotency_key) exactly one JobRun row is ever persisted for
\* the pair, and every caller is handed the id of that same row: no pair
\* has two rows, and a call that has its job in hand holds the first (and
\* only) row of its pair, which exists.
C1_OneJobRunPerKey ==
    /\ \A p \in Pairs : Len(jobs[p]) <= 1
    /\ \A c \in Calls :
         call[c].pc = "respond" =>
            /\ call[c].job.id = << <<call[c].ticket, call[c].key>>, 1 >>
            /\ JobRunLookup(call[c].ticket, call[c].key) = {call[c].job.id}

\* two calls raced on one pair: one created the row, the other lost
C1_Witness ==
    \E c1, c2 \in Calls :
       /\ c1 # c2
       /\ call[c1].pc = "respond" /\ call[c2].pc = "respond"
       /\ call[c1].ticket = call[c2].ticket /\ call[c1].key = call[c2].key
       /\ call[c1].created /\ call[c2].lost
       /\ call[c1].job.id = call[c2].job.id

\* C2: a trigger call whose insert violated the uniqueness constraint is
\* never answered with an error: it is on its way through the re-fetch
\* (inside get_or_create or in the view's except clause), and once it has
\* its job in hand that job is the winner's row of its own pair, with
\* created = false and the 200 status.
C2_LoserRefetchesWinner ==
    \A c \in Calls :
       call[c].lost =>
          /\ call[c].pc \in {"refetch", "except", "respond"}
          /\ call[c].pc = "respond" =>
                /\ ~call[c].created
                /\ Response(c).created = FALSE
                /\ Response(c).http = 200
                /\ call[c].job.id \in JobRunLookup(call[c].ticket, call[c].key)

\* a loser has re-fetched the winner's row, whose job had already finished
C2_Witness ==
    \E c \in Calls :
       /\ call[c].pc = "respond" /\ call[c].lost
       /\ call[c].job.status \in {"succeeded", "failed"}

\* C3: a trigger call enqueues run_ticket_triage for its job exactly when
\* it created the job or the row it read is queued with started_at unset;
\* for a row read as running, succeeded, failed or queued-but-started no
\* message is added, and no other job's queue is touched.
C3_EnqueueIffCreatedOrNeverStarted ==
    [][\A c \in Calls :
          (call[c].pc = "respond" /\ call'[c].pc = "done") =>
             LET j == call[c].job.id
                 wanted == \/ call[c].created
                           \/ /\ call[c].job.status = "queued"
                              /\ call[c].job.started_at = 0
             IN /\ wanted => QueueAfter(j) = queue[j[1]][j[2]] + 1
                /\ ~wanted => queue' = queue
                /\ \A i \in JobIds \ {j} : QueueAfter(i) = queue[i[1]][i[2]]
                /\ Response(c).job_run_id = j]_vars

\* a call that found a finished job, which it will not enqueue again
C3_Witness ==
    \E c \in Calls :
       /\ call[c].pc = "respond" /\ ~call[c].created /\ ~call[c].lost
       /\ call[c].job.status \in {"succeeded", "failed"}
       /\ queue[call[c].job.id[1]][call[c].job.id[2]] = 0

\* the status changes a committed row may show: one edge of
\* queued -> running -> {succeeded, failed}, or the two edges through
\* running that one transaction (or a rolled-back transaction and its
\* failure update) takes together
LifecycleSteps ==
    { <<"queued", "running">>, <<"running", "succeeded">>,
      <<"running", "failed">>, <<"queued", "succeeded">>,
      <<"queued", "failed">> }

\* C4: across every interleaving of trigger calls and worker executions a
\* JobRun's status changes only along queued -> running -> succeeded or
\* failed, and a succeeded or failed job never changes status again: a run
\* writes mark_running() only over a queued row, and every change of a
\* stored row's status is a step of the lifecycle.
C4_LifecycleOnly ==
    [][/\ \A w \in Workers :
             (worker[w].pc = "idle" /\ worker'[w].pc = "in_tx") =>
                Row(worker'[w].job).status = "queued"
       /\ \A j \in JobIds :
             Row(j).status # RowAfter(j).status =>
                <<Row(j).status, RowAfter(j).status>> \in LifecycleSteps]_vars

\* the events of a type recorded for a ticket
TicketEvents(t, type) == { e \in events : e.ticket = t /\ e.event_type = type }

\* C5: when the classifier signals auto_resolve and the confidence is at or
\* above the threshold, then once the job has succeeded the ticket is
\* resolved with the suggested priority and team, the job's Suggestion is
\* accepted and exactly one auto_resolution_applied event exists.
C5_AutoResolveApplied ==
    \A s \in suggestions :
       ( /\ ClassifierAutoResolve(s.ticket)
         /\ s.confidence >= AutoResolveThreshold
         /\ Row(s.job_run).status = "succeeded" ) =>
          /\ tickets[s.ticket].status = "resolved"
          /\ tickets[s.ticket].priority = s.suggested_priority
          /\ tickets[s.ticket].assigned_team = s.suggested_team
          /\ s.status = "accepted"
          /\ Cardinality(TicketEvents(s.ticket, "auto_resolution_applied")) = 1

C7_OneEventPerTypeAndJob ==
    \A e1, e2 \in events :
       ( /\ e1.ticket = e2.ticket
         /\ e1.event_type = e2.event_type
         /\ e1.job_run = e2.job_run ) => e1 = e2

\* a later run of a job that has its events was stopped by the constraint
C7_Witness ==
    \E w \in Workers :
       /\ worker[w].pc = "except" /\ worker[w].exc = "IntegrityError"
       /\ EventsOf(Row(worker[w].job).ticket, "ai_triage_ran",
                   worker[w].job) # {}

\* C8: a JobRun has at most one Suggestion in every reachable state,
\* whatever the interleaving of dispatches and re-runs of the job.
C8_OneSuggestionPerJob ==
    \A j \in JobIds : Cardinality(SuggestionsOf(j)) <= 1

\* a run is inside its transaction for a job that already has a Suggestion
C8_Witness ==
    \E w \in Workers :
       /\ worker[w].pc = "in_tx"
       /\ Cardinality(SuggestionsOf(worker[w].job)) = 1

\* C9: a run that enters for a job that is succeeded and has a Suggestion
\* takes the short way out: it holds the existing suggestion's id as its
\* result; entering and returning write no row at all, and from entry to
\* return the job's row, its Suggestions and its TicketEvents stay as they
\* were.
C9_ReentryRedoesNothing ==
    [][\A w \in Workers :
          /\ ( /\ worker[w].pc = "idle" /\ worker'[w].pc # "idle"
               /\ Row(worker'[w].job).status = "succeeded"
               /\ SuggestionsOf(worker'[w].job) # {} ) =>
                 /\ worker'[w].pc = "already_done"
                 /\ \E s \in suggestions :
                       s.job_run = worker'[w].job /\ worker'[w].result = s.id
                 /\ UNCHANGED <<jobs, suggestions, events, tickets>>
          /\ worker[w].pc = "already_done" =>
                 LET j == worker[w].job IN
                 /\ worker'[w].pc \in {"already_done", "idle"}
                 /\ worker'[w].pc = "idle" =>
                       UNCHANGED <<jobs, suggestions, events, tickets, queue>>
                 /\ RowAfter(j) = Row(j)
                 /\ { s \in suggestions' : s.job_run = j } = SuggestionsOf(j)
                 /\ { e \in events' : e.job_run = j }
                       = { e \in events : e.job_run = j }]_vars

\* a run has entered for a job that had already succeeded
C9_Witness ==
    \E w \in Workers :
       /\ worker[w].pc = "already_done"
       /\ Row(worker[w].job).status = "succeeded"
       /\ worker[w].result \in { s.id : s \in SuggestionsOf(worker[w].job) }

\* C10: a transient failure (a timeout) in the atomic block records the
\* error text on the job, requests a retry (the job is sent to the queue
\* again) and leaves the job in a status other than failed.
C10_TransientFailureRetries ==
    [][\A w \in Workers :
          ( /\ worker[w].pc = "except" /\ worker[w].exc = "TimeoutError"
            /\ worker'[w].pc = "idle" ) =>
             LET j == worker[w].job IN
             /\ RowAfter(j).error = "TimeoutError"
             /\ RowAfter(j).status # "failed"
             /\ QueueAfter(j) = queue[j[1]][j[2]] + 1]_vars

\* a run's failed attempt comes to its end: the except clause returns
AttemptFails(w) == worker[w].pc = "except" /\ worker'[w].pc = "idle"

\* C11: a run that fails with a timeout and has no retry left (the task
\* grants none) ends with the job failed, the error text of that failure
\* on the job and finished_at set.
C11_ExhaustedEndsFailed ==
    [][\A w \in Workers :
          (AttemptFails(w) /\ worker[w].exc = "TimeoutError") =>
             LET j == worker[w].job IN
             /\ RowAfter(j).status = "failed"
             /\ RowAfter(j).error = "TimeoutError"
             /\ RowAfter(j).finished_at > 0
             /\ RowAfter(j).finished_at > Row(j).finished_at]_vars

\* a job has been failed by a timeout
C11_Witness ==
    \E j \in JobIds :
       /\ Row(j).status = "failed" /\ Row(j).error = "TimeoutError"
       /\ Row(j).finished_at > 0

\* C12: a failure that is not transient takes the job straight to failed
\* with the error text recorded and finished_at set; no dispatch of the job
\* is added (no retry), and the failure reaches no trigger request: the
\* calls are as they were and the run returns None.
C12_PermanentFailureFailsOnce ==
    [][\A w \in Workers :
          (AttemptFails(w) /\ worker[w].exc = "ValueError") =>
             LET j == worker[w].job IN
             /\ RowAfter(j).status = "failed"
             /\ RowAfter(j).error = "ValueError"
             /\ RowAfter(j).finished_at > Row(j).finished_at
             /\ queue' = queue
             /\ call' = call
             /\ worker'[w].result = NoSuggestion]_vars

\* a job has been failed by a permanent error while a request about the
\* same job was still to be answered
C12_Witness ==
    \E j \in JobIds :
       /\ Row(j).status = "failed" /\ Row(j).error = "ValueError"
       /\ Row(j).finished_at > 0
       /\ \E c \in Calls : call[c].pc = "respond" /\ call[c].job.id = j

\* C13: a failed attempt leaves the Ticket untouched: from the moment the
\* block raises to the end of the except clause the ticket's status,
\* priority and team do not change and no auto_resolution_applied event is
\* added.
C13_FailureLeavesTicket ==
    [][\A w \in Workers :
          ( \/ AttemptFails(w)
            \/ (worker[w].pc = "in_tx" /\ worker'[w].pc = "except") ) =>
             LET t == Row(worker[w].job).ticket IN
             /\ tickets'[t] = tickets[t]
             /\ { e \in events' : e.ticket = t
                                  /\ e.event_type = "auto_resolution_applied" }
                   = TicketEvents(t, "auto_resolution_applied")]_vars

\* an attempt has failed for a ticket whose suggestion would clear the
\* threshold, and the ticket is as it was created
C13_Witness ==
    \E j \in JobIds :
       /\ Row(j).status = "failed"
       /\ SuggestionsOf(j) = {}
       /\ _simple_classification_and_resolution(Row(j).ticket).confidence
             >= AutoResolveThreshold
       /\ tickets[Row(j).ticket].status = "open"

\* the step on which call c gets the row it will answer with
ReadsJob(c) == call[c].pc # "respond" /\ call'[c].pc = "respond"

\* the step on which call c inserts the JobRun of its (ticket, key)
CreatesJob(c) ==
    /\ call[c].pc = "insert"
    /\ Len(jobs'[<<call[c].ticket, call[c].key>>])
          = Len(jobs[<<call[c].ticket, call[c].key>>]) + 1

\* C17: a call is answered 202 with created=true exactly when it created
\* the JobRun, whose status in the payload is then queued; otherwise it is
\* answered 200 with created=false, the id of the existing job of its
\* (ticket, key) and that row's status, timestamps and error as stored when
\* the call read it.
C17_AcceptedIffCreated ==
    [][\A c \in Calls :
          ReadsJob(c) =>
             LET r == Response(c)'
                 p == <<call'[c].ticket, call'[c].key>>
             IN /\ r.created <=> CreatesJob(c)
                /\ r.http = 202 <=> CreatesJob(c)
                /\ r.http \in {200, 202}
                /\ CreatesJob(c) =>
                      /\ r.status = "queued"
                      /\ r.job_run_id = <<p, Len(jobs'[p])>>
                      /\ r.started_at = 0 /\ r.finished_at = 0 /\ r.error = ""
                /\ ~CreatesJob(c) =>
                      /\ r.job_run_id \in JobRunLookup(p[1], p[2])
                      /\ r.status = Row(r.job_run_id).status
                      /\ r.started_at = Row(r.job_run_id).started_at
                      /\ r.finished_at = Row(r.job_run_id).finished_at
                      /\ r.error = Row(r.job_run_id).error]_vars

\* a call that did not race is about to answer with a job that has failed
C17_Witness ==
    \E c \in Calls :
       /\ call[c].pc = "respond" /\ ~call[c].lost
       /\ Response(c).http = 200 /\ ~Response(c).created
       /\ Response(c).status = "failed" /\ Response(c).error # ""

\* C18: JobRun identity is scoped to (ticket, idempotency_key): the job a
\* call answers with is the job of its own ticket, tenant and key, two
\* calls that differ in the ticket or in the key answer with different
\* jobs, a call loses a creation race only to a row of its own pair, and a
\* call that created its job answers 202 and dispatches it.
C18_IdentityPerTicketAndKey ==
    /\ \A c \in Calls :
          call[c].pc = "respond" =>
             LET row == Row(call[c].job.id) IN
             /\ row.ticket = call[c].ticket
             /\ row.idempotency_key = call[c].key
             /\ row.organization = TicketOrg(call[c].ticket)
             /\ call[c].created =>
                   /\ Response(c).http = 202
                   /\ should_enqueue(call[c].created, call[c].job)
    /\ \A c \in Calls :
          call[c].pc \in {"refetch", "except"} =>
             \E j \in JobIds : /\ Row(j).ticket = call[c].ticket
                               /\ Row(j).idempotency_key = call[c].key
    /\ \A c1, c2 \in Calls :
          ( /\ call[c1].pc = "respond" /\ call[c2].pc = "respond"
            /\ <<call[c1].ticket, call[c1].key>>
                  # <<call[c2].ticket, call[c2].key>> ) =>
             call[c1].job.id # call[c2].job.id

\* the same key has made one job for each of two tenants' tickets, a second
\* key another job for the first ticket, and each waits in the queue once
C18_Witness ==
    /\ \A p \in Pairs : Len(jobs[p]) = 1 /\ queue[p] = <<1>>
    /\ \A j \in JobIds : Row(j).status = "queued"

BadKey(h) ==
    \/ ~h.present
    \/ \A n \in 1..Len(h.text) : h.text[n] = " "
    \/ \E n \in 1..Len(h.text) : Len(h.text[n]) > 80

\* the step by which call c turns its request away with the status code
Refuses(c, code) ==
    /\ call[c].pc = "idle"
    /\ call'[c].pc = "rejected" /\ call'[c].refused = code
    /\ call'[c].job = NoSnapshot /\ ~call'[c].created
    /\ UNCHANGED <<tickets, jobs, suggestions, events, queue, worker>>

\* the step by which the error response of call c goes out
SendsRefusal(c) ==
    /\ call[c].pc = "rejected" /\ call'[c].pc = "done"
    /\ UNCHANGED <<tickets, jobs, suggestions, events, queue, worker>>

\* C16: a request of a user allowed to trigger whose Idempotency-Key is
\* missing, empty, blank or longer than 80 characters is turned away with a
\* validation error (400) and the job table is not touched: no JobRun is
\* added or changed, none is locked and nothing is enqueued, from the
\* arrival of the request to its response.
C16_BadKeyRejected ==
    [][\A c \in Calls :
          /\ \A i \in RequestInputs :
                ( /\ BadKey(i[2])
                  /\ Role(i[3], TicketOrg(i[1])) \in {"admin", "agent"}
                  /\ TriggerPost(c, i[1], i[2], i[3]) ) => Refuses(c, 400)
          /\ (call[c].pc = "rejected" /\ call[c].refused = 400) =>
                (call'[c] = call[c] \/ SendsRefusal(c))]_vars

\* a request is being turned away for its key while a job of the same
\* ticket exists
C16_Witness ==
    \E c \in Calls :
       /\ call[c].pc = "rejected" /\ call[c].refused = 400
       /\ \E j \in JobIds : Row(j).ticket = call[c].ticket

\* C19: a request of a user who is not a member of the ticket's
\* organization is answered not-found (404) whatever its key, and adds or
\* changes no JobRun and enqueues nothing, from its arrival to its
\* response.
C19_NonMemberNotFound ==
    [][\A c \in Calls :
          /\ \A i \in RequestInputs :
                ( /\ Role(i[3], TicketOrg(i[1])) = ""
                  /\ TriggerPost(c, i[1], i[2], i[3]) ) => Refuses(c, 404)
          /\ (call[c].pc = "rejected" /\ call[c].refused = 404) =>
                (call'[c] = call[c] \/ SendsRefusal(c))]_vars

\* a non-member's request for a ticket that has a job is being answered
\* not-found
C19_Witness ==
    \E c \in Calls :
       /\ call[c].pc = "rejected" /\ call[c].refused = 404
       /\ \E j \in JobIds : Row(j).ticket = call[c].ticket

Terminal == {"succeeded", "failed"}

\* C15: under fair scheduling every JobRun that is created is eventually
\* succeeded or failed: no job stays queued or running for ever and none
\* is retried for ever.
C15_EveryJobEnds ==
    \A p \in Pairs :
       (Len(jobs[p]) > 0) ~>
          (Len(jobs[p]) > 0 /\ jobs[p][1].status \in Terminal)

\* two jobs were made and both have ended, one of them failed, and nothing
\* waits or runs
C15_Witness ==
    /\ Cardinality(JobIds) = 2
    /\ \A j \in JobIds : Row(j).status \in Terminal /\ queue[j[1]][j[2]] = 0
    /\ \E j \in JobIds : Row(j).status = "failed"
    /\ \E j \in JobIds : Row(j).status = "succeeded"
    /\ \A w \in Workers : worker[w].pc = "idle"

\* C14: the ticket update, the Suggestion's flip to accepted and the
\* auto_resolution_applied event are atomic: in every state the other
\* processes can read, a ticket is resolved exactly when an accepted
\* Suggestion of it exists and exactly when an auto_resolution_applied
\* event of it exists, and a job has an accepted Suggestion exactly when it
\* has that event, whatever failure occurs between the three writes.
C14_AutoResolveAtomic ==
    /\ \A t \in Tickets :
          /\ tickets[t].status = "resolved" <=>
                (\E x \in suggestions : x.ticket = t /\ x.status = "accepted")
          /\ tickets[t].status = "resolved" <=>
                TicketEvents(t, "auto_resolution_applied") # {}
    /\ \A j \in JobIds :
          (\E x \in SuggestionsOf(j) : x.status = "accepted") <=>
             EventsOf(Row(j).ticket, "auto_resolution_applied", j) # {}

\* one job's auto-resolution is committed, all three writes present, while
\* a run of another job of the ticket stands between its second and its
\* third write, where a failure can still undo them
C14_Witness ==
    \E w \in Workers, j \in JobIds :
       /\ worker[w].pc = "ar_suggestion" /\ worker[w].job # j
       /\ Row(worker[w].job).ticket = Row(j).ticket
       /\ SuggestionsOf(worker[w].job) = {}
       /\ tickets[Row(j).ticket] = ResolvedTicket(j)
       /\ \E x \in SuggestionsOf(j) : x.status = "accepted"
       /\ EventsOf(Row(j).ticket, "auto_resolution_applied", j) # {}

\* C21: the Suggestion persisted for a job carries as citations the
\* knowledge-base results that the search returned for the job's ticket, in
\* order, hence a non-empty list whenever the search returns results.
C21_CitationsFromSearch ==
    \A s \in suggestions :
        s.citations \in
            search_kb_chunks_for_query(s.organization, TicketBody(s.ticket), 5)

\* the worker is inside the atomic block of run_ticket_triage: past
\* select_for_update().get(), not yet committed or rolled back
InAtomicBlock(w) == worker[w].pc \notin {"idle", "except"}

\* C22: two workers never both claim the same job: no two executions of
\* run_ticket_triage are at the same time past the load-and-lock step of
\* one job and at the running transition or a later step of the block.
C22_OneWorkerPerJob ==
    \A w1 \in Workers : \A w2 \in Workers :
        (w1 # w2 /\ InAtomicBlock(w1) /\ InAtomicBlock(w2))
            => worker[w1].job # worker[w2].job

\* a worker holds a job for which a second message waits, the other worker
\* being free to take it
C22_Witness ==
    \E w1 \in Workers : \E w2 \in Workers :
        /\ worker[w1].pc = "in_tx"
        /\ worker[w2].pc = "idle"
        /\ queue[worker[w1].job[1]][worker[w1].job[2]] > 0

\* the next request to arrive: the requests before it have arrived
NextToArrive(c) ==
    /\ call[c].pc = "idle"
    /\ IF c = 1 THEN TRUE ELSE call[c - 1].pc # "idle"

\* C23: a trigger request never waits for a worker: while a worker is
\* processing the job of a (ticket, key), inside its transaction, a trigger
\* call for that ticket and key can read the job and go on to its response.
C23_TriggerNeverWaits ==
    \A c \in Calls : \A r \in Requests :
        ( /\ NextToArrive(c)
          /\ JobRunLookup(r[1], r[2]) # {}
          /\ \E w \in Workers : /\ worker[w].pc = "in_tx"
                                 /\ worker[w].job = JobRunGet(r[1], r[2]) )
            => ENABLED TriggerGetFor(c, r[1], r[2], r[3])

\* the emitted ranges contain the character at position p (1-based)
Covered(p) ==
    \E n \in 1..Len(chunker.out) :
        chunker.out[n][1] < p /\ p <= chunker.out[n][2]

\* chunk_text has run its loop on a non-empty text and is about to return
ChunkTextDone == chunker.pc = "done" /\ chunker.text # << >>

\* C27: for every non-empty normalized text and every chunk_size >= 1 and
\* overlap >= 0, the window that reaches the end of the text is emitted:
\* the last chunk of the returned list is that window and ends at
\* len(text).
C27_LastChunkEndsAtEnd ==
    (ChunkTextDone /\ normalize_text(chunker.text) = chunker.text)
        => /\ chunker.out # << >>
           /\ chunker.out[Len(chunker.out)] =
                  <<chunker.i, Len(chunker.text),
                    SubSeq(chunker.text, chunker.i + 1, Len(chunker.text))>>

\* a normalized text whose last window is shorter than chunk_size and
\* follows other emitted windows
C27_Witness ==
    /\ ChunkTextDone
    /\ normalize_text(chunker.text) = chunker.text
    /\ Len(chunker.out) >= 2
    /\ Len(chunker.text) - chunker.i < chunker.chunk_size

\* C28 as stated: the emitted [start, end) ranges cover every character
\* position of the text, for every text and every chunk_size and overlap.
C28_RangesCoverText ==
    ChunkTextDone => \A p \in 1..Len(chunker.text) : Covered(p)

\* C28, amended: every emitted chunk is the text between its offsets, and
\* the emitted ranges cover every character position of the text except
\* positions that hold whitespace (those of the dropped blank windows).
C28_RangesCoverNonBlank ==
    ChunkTextDone =>
        /\ \A n \in 1..Len(chunker.out) :
              chunker.out[n][3] = SubSeq(chunker.text, chunker.out[n][1] + 1,
                                         chunker.out[n][2])
        /\ \A p \in 1..Len(chunker.text) :
              Covered(p) \/ chunker.text[p] \in Whitespace

\* a normalized text with a blank window dropped between two emitted
\* chunks
C28_Witness ==
    /\ ChunkTextDone
    /\ normalize_text(chunker.text) = chunker.text
    /\ Len(chunker.out) >= 2
    /\ \E p \in 1..Len(chunker.text) : ~Covered(p)

\* C29: chunk_text terminates for every text and every chunk_size >= 1,
\* overlap >= chunk_size included: every iteration of the loop either ends
\* it or moves the window start strictly forward, to a place inside the
\* text.
C29_ChunkTextTerminates ==
    [][chunker.pc = "loop" =>
          \/ chunker'.pc = "done"
          \/ /\ chunker'.pc = "loop"
             /\ chunker'.i > chunker.i
             /\ chunker'.i < Len(chunker.text)]_vars

\* a call with overlap >= chunk_size that has gone through several
\* iterations and returned
C29_Witness ==
    /\ ChunkTextDone
    /\ chunker.overlap_arg >= chunker.chunk_size
    /\ chunker.i >= 2

\* the stored chunk a result entry names
ChunkOf(entry) == CHOOSE c \in chunks : c.id = entry.chunk_id

\* C24: search returns only chunks that belong to the given tenant and
\* have a non-null embedding: every entry of a result names a stored chunk
\* of the organization searched, with an embedding.
C24_SearchWithinTenant ==
    reply.op = "search" =>
        \A n \in 1..Len(reply.results) :
            /\ \E c \in chunks : c.id = reply.results[n].chunk_id
            /\ ChunkOf(reply.results[n]).organization = reply.organization
            /\ ChunkOf(reply.results[n]).embedding # Null

\* a search that returned fewer than k results although another tenant
\* holds an embedded chunk and the tenant itself one without embedding
C24_Witness ==
    /\ reply.op = "search"
    /\ reply.results # << >>
    /\ Len(reply.results) < reply.k
    /\ \E c \in chunks :
          c.organization # reply.organization /\ c.embedding # Null
    /\ \E c \in chunks :
          c.organization = reply.organization /\ c.embedding = Null

\* C25: search returns at most k results, sorted by non-decreasing
\* distance to the query embedding, results at equal distance in ascending
\* order of chunk id.
C25_SortedWithTieBreak ==
    reply.op = "search" =>
        /\ Len(reply.results) <= reply.k
        /\ \A a \in 1..Len(reply.results) : \A b \in 1..Len(reply.results) :
              a < b =>
                \/ reply.results[a].score < reply.results[b].score
                \/ /\ reply.results[a].score = reply.results[b].score
                   /\ reply.results[a].chunk_id < reply.results[b].chunk_id

\* C26: degenerate inputs are not errors.  An ingest whose text normalizes
\* to empty, from a user and with a title that are otherwise accepted, is
\* answered without an error; a search whose query normalizes to empty,
\* and a search of a tenant with no embedded chunk, return an empty list.
C26_DegenerateInputsNotErrors ==
    /\ ( /\ reply.op = "ingest"
         /\ normalize_text(reply.text) = << >>
         /\ Role(reply.user, reply.organization) \in {"admin", "agent"}
         /\ strip(reply.title) # << >> )
           => reply.status \notin {"400", "403", "404"}
    /\ (reply.op = "search" /\ normalize_text(reply.text) = << >>)
           => reply.status = "returned" /\ reply.results = << >>
    /\ (reply.op = "search" /\ Candidates(reply.organization) = {})
           => reply.status = "returned" /\ reply.results = << >>

\* the chunks of a document
ChunksOfDocument(d) == { c \in chunks : c.document = d }

\* C30: an ingested document has its chunks persisted and its embedding
\* task dispatched; once the task has run, every chunk of the document has
\* a non-null embedding and is a candidate of its tenant's searches.
C30_ChunksGetEmbedded ==
    \A d \in DOMAIN embed_tasks :
        /\ ChunksOfDocument(d) # {}
        /\ embed_tasks[d] = "returned" =>
              \A c \in ChunksOfDocument(d) :
                  c.embedding # Null /\ c \in Candidates(c.organization)

\* C34: a worker that picks up a job transitions it to running, sets
\* started_at only if it was unset (an already-set started_at is preserved)
\* and clears any prior error text, so that a job that later succeeds has
\* empty error text.
C34_PickupKeepsStartClearsError ==
    /\ \A w \in Workers :
          worker[w].pc = "in_tx" =>
             /\ worker[w].row.status = "running"
             /\ worker[w].row.started_at # 0
             /\ Row(worker[w].job).started_at # 0 =>
                   worker[w].row.started_at = Row(worker[w].job).started_at
             /\ worker[w].row.error = ""
    /\ \A j \in JobIds : Row(j).status = "succeeded" => Row(j).error = ""

C37_TimestampsAgreeWithStatus ==
    \A j \in JobIds :
        /\ Row(j).started_at # 0 <=> Row(j).status # "queued"
        /\ Row(j).finished_at # 0 <=> Row(j).status \in {"succeeded", "failed"}

\* C38: every JobRun, Suggestion and job-scoped TicketEvent written by the
\* trigger endpoint or by run_ticket_triage carries the organization of its
\* ticket, and a Suggestion or job-scoped event references the same ticket
\* as its JobRun: no sequence of triggers and runs produces a row whose
\* tenant differs from its ticket's tenant.
C38_RowsCarryTicketTenant ==
    /\ \A j \in JobIds : Row(j).organization = TicketOrg(Row(j).ticket)
    /\ \A s \in suggestions :
          /\ s.organization = TicketOrg(s.ticket)
          /\ s.ticket = Row(s.job_run).ticket
    /\ \A e \in events :
          /\ e.organization = TicketOrg(e.ticket)
          /\ e.ticket = Row(e.job_run).ticket

\* jobs of both tenants have run to their Suggestion and events, the one of
\* the second tenant triggered by a member of both
C38_Witness ==
    \E s1 \in suggestions : \E s2 \in suggestions :
        /\ s1.organization = "o1"
        /\ s2.organization = "o2"
        /\ user_org_ids(Row(s2.job_run).triggered_by) = Organizations
        /\ \E e \in events : e.job_run = s2.job_run

\* C39: a trigger call that finds an existing JobRun for its (ticket,
\* idempotency_key) leaves that row unchanged: status, started_at,
\* finished_at, error and triggered_by are the same after the call as
\* before, whoever the caller is.  Every step of such a call (the read of
\* the row, directly or after a lost insert, and the dispatch and answer)
\* leaves the row as it was.
C39_FoundJobUnchanged ==
    [][\A c \in Calls :
          LET reads == ReadsJob(c) /\ ~CreatesJob(c)
              answers == /\ call[c].pc = "respond"
                         /\ ~call[c].created
                         /\ call'[c].pc = "done"
              j == IF reads THEN call'[c].job.id ELSE call[c].job.id
          IN (reads \/ answers) =>
                /\ RowAfter(j).status = Row(j).status
                /\ RowAfter(j).started_at = Row(j).started_at
                /\ RowAfter(j).finished_at = Row(j).finished_at
                /\ RowAfter(j).error = Row(j).error
                /\ RowAfter(j).triggered_by = Row(j).triggered_by]_vars

\* the job that bob created for (t1, k1) has run and failed, an earlier
\* call has been answered, and alice's request with the same ticket and key
\* is the next to arrive and can read the row
C39_Witness ==
    \E c \in Calls :
        /\ NextToArrive(c)
        /\ JobRunLookup("t1", "k1") # {}
        /\ Row(JobRunGet("t1", "k1")).triggered_by = "bob"
        /\ Row(JobRunGet("t1", "k1")).status = "failed"
        /\ Row(JobRunGet("t1", "k1")).error # ""
        /\ \E d \in Calls : call[d].pc = "done"
        /\ <<"t1", "k1", "alice">> \in Requests
        /\ ENABLED TriggerGetFor(c, "t1", "k1", "alice")

\* C31: every vector produced by the embedder, for a chunk or for a query,
\* has length exactly the storage dimension of the DocumentChunk.embedding
\* column, by zero-padding a shorter model vector or truncating a longer
\* one.
C31_VectorsFitColumn ==
    embedder.pc = "returned" =>
        \A n \in 1..Len(embedder.out) :
            LET vec == encode(embedder.texts[n], embedder.dim)
                out == embedder.out[n]
            IN /\ Len(out) = models_EMBED_DIM
               /\ \A i \in 1..Len(out) :
                     out[i] = IF i <= Len(vec) THEN vec[i] ELSE 0

EventsAdded(type) == { e \in events' \ events : e.event_type = type }

\* C33: every update of an existing ticket records exactly one *_changed
\* event (status_changed, priority_changed, assigned_team_changed) for each
\* of the three fields whose value actually changed, with payload from =
\* the value before the update and to = the value after, and records no
\* event for a field that did not change, also when two updates of the same
\* ticket interleave.
C33_ChangeEventsMatchUpdate ==
    [][\A p \in Patches :
          (patch[p].pc = "save" /\ patch'[p].pc = "idle") =>
             \A f \in Fields :
                IF tickets["t1"][f] # tickets'["t1"][f]
                THEN /\ Cardinality(EventsAdded(f \o "_changed")) = 1
                     /\ \A e \in EventsAdded(f \o "_changed") :
                           /\ e.from = tickets["t1"][f]
                           /\ e.to = tickets'["t1"][f]
                ELSE EventsAdded(f \o "_changed") = {}]_vars

\* the status a review request is to leave the suggestion in
ReviewTarget(op) ==
    IF op = "approve" THEN {"approved", "accepted"} ELSE {"rejected"}

\* C35: approving a suggestion sets its status to the approved state and
\* records exactly one suggestion_approved event with the old and the new
\* status; approving a suggestion that is already approved changes nothing
\* and records no further event; the same holds for reject with
\* suggestion_rejected.  Stated of every step that handles the request of a
\* member with a reviewing role for a suggestion of the ticket.
C35_ReviewSetsStatusOnce ==
    [][\A s \in suggestions :
          LET after == { x \in suggestions' : x.id = s.id }
              type == "suggestion_" \o
                         (IF review'.op = "approve" THEN "approved"
                          ELSE "rejected")
          IN (review'.sid = s.id /\ review'.status \notin {"403", "404"}) =>
                IF s.status \in ReviewTarget(review'.op)
                THEN after = {s} /\ events' = events
                ELSE /\ \A x \in after : x.status \in ReviewTarget(review'.op)
                     /\ Cardinality(events' \ events) = 1
                     /\ \A e \in events' \ events :
                           /\ e.event_type = type
                           /\ e.suggestion_id = s.id
                           /\ e.from_status = s.status
                           /\ e.to_status \in ReviewTarget(review'.op)]_vars

====
